---- MODULE Spec2Model ----
(***************************************************************************)
(* Field-of-view engine of fov-visualization (src/src/fov_standard.py):    *)
(* the precomputed octant tables (FovTile / FovOctant / FovMap), the       *)
(* runtime sweep of the eight octants (get_visible_tiles_1..8) and the     *)
(* query entry point fov_calc.                                             *)
(*                                                                         *)
(* Encoding of the Python values:                                          *)
(*  - a bit field (Python int used as a bitset) is the set of the indices  *)
(*    of its set bits; `a | b` is \cup, `a & b` is \cap, `a > 0` is        *)
(*    a # {}.  The 256-bit slope fields keep the code's two 128-bit words  *)
(*    (`_1` holds bits 0..127, `_2` holds bits 128..255 shifted down).     *)
(*  - visible_parts (0bCWNT) is the set of the weights of its set bits:    *)
(*    T = 1, N = 2, W = 4, C = 8.                                          *)
(*  - a slope (dsec +- 0.5) / (dpri +- 0.5) is the exact fraction          *)
(*    (2 dsec +- 1) / (2 dpri +- 1), kept as <<numerator, denominator>>.   *)
(***************************************************************************)
EXTENDS Integers, Sequences, FiniteSets, TLC

\* ------------------------------------------------------------------ bounds
MaxRadius == 3      \* the radii of the table set and of the queries: 0 .. MaxRadius
MaxDim == 4         \* the maps with blockers are MaxDim x MaxDim
MaxBlockers == 1    \* blockers on the cells other than the observer's
OpenDim == 5        \* the open and one-structure maps: up to OpenDim x OpenDim
MaxCalls == 2       \* the calls of fov_calc that are counted
MaxStructures == 2  \* structures on the structure-only maps
MaxDen == 4         \* slopes n/d with d up to MaxDen
MaxLine == 6        \* line endpoints up to MaxLine cells from the axes
GameDim == 3        \* the map of the program's runs is GameDim x GameDim
FarRadius == 15     \* the radius of the long-range queries
FarDim == 16        \* the long-range maps are FarDim x 2

\* --------------------------------------------------------------- helpers.py
Octants == 1..8

\* helpers.py to_tile_id
to_tile_id(x, y, xdims) == x + y * xdims

\* helpers.py pri_sec_to_relative
\* pri_sec_to_relative with octant 3 unmirrored
pri_sec_to_relative_o3(pri, sec, octant) ==
    CASE octant = 1 -> <<pri, sec>>
      [] octant = 2 -> <<sec, pri>>
      [] octant = 3 -> <<sec, pri>>
      [] octant = 4 -> <<-pri, sec>>
      [] octant = 5 -> <<-pri, -sec>>
      [] octant = 6 -> <<-sec, -pri>>
      [] octant = 7 -> <<sec, -pri>>
      [] octant = 8 -> <<pri, -sec>>

pri_sec_to_relative(pri, sec, octant) ==
    CASE octant = 1 -> <<pri, sec>>
      [] octant = 2 -> <<sec, pri>>
      [] octant = 3 -> <<-sec, pri>>
      [] octant = 4 -> <<-pri, sec>>
      [] octant = 5 -> <<-pri, -sec>>
      [] octant = 6 -> <<-sec, -pri>>
      [] octant = 7 -> <<sec, -pri>>
      [] octant = 8 -> <<pri, -sec>>

\* helpers.py to_coords with the quotient and the remainder exchanged
to_coords_swapped(tile_id, xdims) == <<tile_id \div xdims, tile_id % xdims>>

\* helpers.py to_coords: (x, y) of a tile id
to_coords(tile_id, xdims) == <<tile_id % xdims, tile_id \div xdims>>

\* helpers.py octant_transform: (x, y) of octant a taken to octant b
octant_transform(x, y, a, b) ==
    CASE a = 1 /\ b = 1 -> <<x, y>>
      [] a = 1 /\ b = 2 -> <<y, x>>
      [] a = 1 /\ b = 3 -> <<-y, x>>
      [] a = 1 /\ b = 4 -> <<-x, y>>
      [] a = 1 /\ b = 5 -> <<-x, -y>>
      [] a = 1 /\ b = 6 -> <<-y, -x>>
      [] a = 1 /\ b = 7 -> <<y, -x>>
      [] a = 1 /\ b = 8 -> <<x, -y>>
      [] a = 2 /\ b = 1 -> <<y, x>>
      [] a = 2 /\ b = 2 -> <<x, y>>
      [] a = 2 /\ b = 3 -> <<-x, y>>
      [] a = 2 /\ b = 4 -> <<-y, x>>
      [] a = 2 /\ b = 5 -> <<-y, -x>>
      [] a = 2 /\ b = 6 -> <<-x, -y>>
      [] a = 2 /\ b = 7 -> <<x, -y>>
      [] a = 2 /\ b = 8 -> <<y, -x>>
      [] a = 3 /\ b = 1 -> <<y, -x>>
      [] a = 3 /\ b = 2 -> <<-x, y>>
      [] a = 3 /\ b = 3 -> <<x, y>>
      [] a = 3 /\ b = 4 -> <<-y, -x>>
      [] a = 3 /\ b = 5 -> <<-y, x>>
      [] a = 3 /\ b = 6 -> <<x, -y>>
      [] a = 3 /\ b = 7 -> <<-x, -y>>
      [] a = 3 /\ b = 8 -> <<y, x>>
      [] a = 4 /\ b = 1 -> <<-x, y>>
      [] a = 4 /\ b = 2 -> <<y, -x>>
      [] a = 4 /\ b = 3 -> <<-y, -x>>
      [] a = 4 /\ b = 4 -> <<x, y>>
      [] a = 4 /\ b = 5 -> <<x, -y>>
      [] a = 4 /\ b = 6 -> <<-y, x>>
      [] a = 4 /\ b = 7 -> <<y, x>>
      [] a = 4 /\ b = 8 -> <<-x, -y>>
      [] a = 5 /\ b = 1 -> <<-x, -y>>
      [] a = 5 /\ b = 2 -> <<-y, -x>>
      [] a = 5 /\ b = 3 -> <<y, -x>>
      [] a = 5 /\ b = 4 -> <<x, -y>>
      [] a = 5 /\ b = 5 -> <<x, y>>
      [] a = 5 /\ b = 6 -> <<y, x>>
      [] a = 5 /\ b = 7 -> <<-y, x>>
      [] a = 5 /\ b = 8 -> <<-x, y>>
      [] a = 6 /\ b = 1 -> <<-y, -x>>
      [] a = 6 /\ b = 2 -> <<-x, -y>>
      [] a = 6 /\ b = 3 -> <<x, -y>>
      [] a = 6 /\ b = 4 -> <<y, -x>>
      [] a = 6 /\ b = 5 -> <<y, x>>
      [] a = 6 /\ b = 6 -> <<x, y>>
      [] a = 6 /\ b = 7 -> <<-x, y>>
      [] a = 6 /\ b = 8 -> <<-y, x>>
      [] a = 7 /\ b = 1 -> <<-y, x>>
      [] a = 7 /\ b = 2 -> <<x, -y>>
      [] a = 7 /\ b = 3 -> <<-x, -y>>
      [] a = 7 /\ b = 4 -> <<y, x>>
      [] a = 7 /\ b = 5 -> <<y, -x>>
      [] a = 7 /\ b = 6 -> <<-x, y>>
      [] a = 7 /\ b = 7 -> <<x, y>>
      [] a = 7 /\ b = 8 -> <<-y, -x>>
      [] a = 8 /\ b = 1 -> <<x, -y>>
      [] a = 8 /\ b = 2 -> <<-y, x>>
      [] a = 8 /\ b = 3 -> <<y, x>>
      [] a = 8 /\ b = 4 -> <<-x, -y>>
      [] a = 8 /\ b = 5 -> <<-x, y>>
      [] a = 8 /\ b = 6 -> <<y, -x>>
      [] a = 8 /\ b = 7 -> <<-y, -x>>
      [] a = 8 /\ b = 8 -> <<x, y>>

Min(a, b) == IF a < b THEN a ELSE b
Max(a, b) == IF a > b THEN a ELSE b

\* boundary_radii without the map's edges
boundary_radii_radius(ox, oy, xdims, ydims, octant, radius) == <<radius, radius>>

\* helpers.py boundary_radii
boundary_radii(ox, oy, xdims, ydims, octant, radius) ==
    CASE octant = 1 -> <<Min(xdims - ox - 1, radius), Min(ydims - oy - 1, radius)>>
      [] octant = 2 -> <<Min(ydims - oy - 1, radius), Min(xdims - ox - 1, radius)>>
      [] octant = 3 -> <<Min(ydims - oy - 1, radius), Min(ox, radius)>>
      [] octant = 4 -> <<Min(ox, radius), Min(ydims - oy - 1, radius)>>
      [] octant = 5 -> <<Min(ox, radius), Min(oy, radius)>>
      [] octant = 6 -> <<Min(oy, radius), Min(ox, radius)>>
      [] octant = 7 -> <<Min(oy, radius), Min(xdims - ox - 1, radius)>>
      [] octant = 8 -> <<Min(xdims - ox - 1, radius), Min(oy, radius)>>

\* ------------------------------------------------------------------ lines
\* lines.py bresenham, the Y-primary loop: n iterations left
RECURSIVE bresenham_y(_, _, _, _, _, _, _, _, _)
bresenham_y(n, x, y, tx, dx, dy, x_inc, y_inc, result) ==
    IF n = 0 THEN result
    ELSE LET y_n == y + y_inc
             x_n == IF tx >= 0 THEN x + x_inc ELSE x
             tx_n == (IF tx >= 0 THEN tx - 2 * dy ELSE tx) + 2 * dx
         IN  bresenham_y(n - 1, x_n, y_n, tx_n, dx, dy, x_inc, y_inc,
                         Append(result, <<x_n, y_n>>))

\* lines.py bresenham, the X-primary loop
RECURSIVE bresenham_x(_, _, _, _, _, _, _, _, _)
bresenham_x(n, x, y, ty, dx, dy, x_inc, y_inc, result) ==
    IF n = 0 THEN result
    ELSE LET x_n == x + x_inc
             y_n == IF ty >= 0 THEN y + y_inc ELSE y
             ty_n == (IF ty >= 0 THEN ty - 2 * dx ELSE ty) + 2 * dy
         IN  bresenham_x(n - 1, x_n, y_n, ty_n, dx, dy, x_inc, y_inc,
                         Append(result, <<x_n, y_n>>))

\* lines.py bresenham: the list of cells from (x1, y1) to (x2, y2)
bresenham(x1, y1, x2, y2) ==
    LET dx == IF x2 - x1 < 0 THEN x1 - x2 ELSE x2 - x1
        dy == IF y2 - y1 < 0 THEN y1 - y2 ELSE y2 - y1
        x_inc == IF x2 < x1 THEN -1 ELSE 1
        y_inc == IF y2 < y1 THEN -1 ELSE 1
    IN  IF dy > dx
        THEN bresenham_y(dy, x1, y1, 2 * dx - dy, dx, dy, x_inc, y_inc, <<<<x1, y1>>>>)
        ELSE bresenham_x(dx, x1, y1, 2 * dy - dx, dx, dy, x_inc, y_inc, <<<<x1, y1>>>>)

\* 2d/lines.py fire_line, the Y-primary loop: the list holds (sec, pri)
RECURSIVE fire_line_y(_, _, _, _, _, _, _)
fire_line_y(n, pri, sec, dist, dsdp, y_inc, result) ==
    IF n = 0 THEN result
    ELSE LET pri_n == pri + y_inc
             d == dist + dsdp
             dist_n == IF d >= 1000 THEN d - 1000 ELSE IF d < 0 THEN d + 1000 ELSE d
             sec_n == IF d >= 1000 THEN sec + 1 ELSE IF d < 0 THEN sec - 1 ELSE sec
         IN  fire_line_y(n - 1, pri_n, sec_n, dist_n, dsdp, y_inc,
                         Append(result, <<sec_n, pri_n>>))

\* 2d/lines.py fire_line, the X-primary loop: the list holds (pri, sec)
RECURSIVE fire_line_x(_, _, _, _, _, _, _)
fire_line_x(n, pri, sec, dist, dsdp, pri_inc, result) ==
    IF n = 0 THEN result
    ELSE LET pri_n == pri + pri_inc
             d == dist + dsdp
             dist_n == IF d >= 1000 THEN d - 1000 ELSE IF d < 0 THEN d + 1000 ELSE d
             sec_n == IF d >= 1000 THEN sec + 1 ELSE IF d < 0 THEN sec - 1 ELSE sec
         IN  fire_line_x(n - 1, pri_n, sec_n, dist_n, dsdp, pri_inc,
                         Append(result, <<pri_n, sec_n>>))

\* 2d/lines.py fire_line; int(a / b * 1000) is the quotient of 1000 * a by b
fire_line(x1, y1, x2, y2) ==
    LET dx == x2 - x1
        dy == y2 - y1
        abs_dx == IF dx < 0 THEN -dx ELSE dx
        abs_dy == IF dy < 0 THEN -dy ELSE dy
        x_inc == IF dx < 0 THEN -1 ELSE 1
        y_inc == IF dy < 0 THEN -1 ELSE 1
    IN  IF abs_dx = 0 /\ abs_dy = 0 THEN <<<<x1, y1>>>>
        ELSE IF abs_dy > abs_dx
        THEN fire_line_y(abs_dy, y1, x1, 500, ((1000 * abs_dx) \div abs_dy) * x_inc,
                         y_inc, <<<<x1, y1>>>>)
        ELSE fire_line_x(abs_dx, x1, y1, 500, ((1000 * abs_dy) \div abs_dx) * y_inc,
                         x_inc, <<<<x1, y1>>>>)

\* ------------------------------------------------------- slopes (fractions)
\* max(n/d, 0.0) and min(n/d, 1.0) on a fraction <<n, d>> with d > 0
ClampLo(f) == IF f[1] < 0 THEN <<0, 1>> ELSE f
ClampHi(f) == IF f[1] > f[2] THEN <<1, 1>> ELSE f

tile_near_slopes(dpri, dsec) ==
    << ClampLo(<<2 * dsec - 1, 2 * dpri - 1>>),
       ClampHi(<<2 * dsec + 1, 2 * dpri - 1>>) >>

tile_far_slopes(dpri, dsec) ==
    << ClampLo(<<2 * dsec - 1, 2 * dpri + 1>>),
       ClampHi(<<2 * dsec + 1, 2 * dpri + 1>>) >>

\* a slip in tile_obtuse_slopes: the high end taken one cell further out
tile_obtuse_slopes_wide(dpri, dsec) ==
    << ClampLo(<<2 * dsec + 1, 2 * dpri + 1>>),
       ClampHi(<<2 * dsec + 3, 2 * dpri - 1>>) >>

tile_obtuse_slopes(dpri, dsec) ==
    << ClampLo(<<2 * dsec + 1, 2 * dpri + 1>>),
       ClampHi(<<2 * dsec + 1, 2 * dpri - 1>>) >>

tile_acute_slopes(dpri, dsec) ==
    IF dsec = 0 THEN << <<0, 1>>, <<0, 1>> >>
    ELSE << ClampLo(<<2 * dsec - 1, 2 * dpri + 1>>),
            ClampHi(<<2 * dsec - 1, 2 * dpri - 1>>) >>

\* a slip in tile_slopes: the cardinal tile measured to its far side
tile_slopes_far(dpri, dsec) ==
    IF dsec = 0 THEN << <<0, 1>>, ClampHi(<<2 * dsec + 1, 2 * dpri + 1>>) >>
    ELSE << ClampLo(<<2 * dsec - 1, 2 * dpri + 1>>),
            ClampHi(<<2 * dsec + 1, 2 * dpri - 1>>) >>

tile_slopes(dpri, dsec) ==
    IF dsec = 0 THEN << <<0, 1>>, ClampHi(<<2 * dsec + 1, 2 * dpri - 1>>) >>
    ELSE << ClampLo(<<2 * dsec - 1, 2 * dpri + 1>>),
            ClampHi(<<2 * dsec + 1, 2 * dpri - 1>>) >>

\* math.ceil(f * 255.0) and math.floor(f * 255.0) for a fraction f >= 0
CeilScaled(f) == (f[1] * 255 + f[2] - 1) \div f[2]
FloorScaled(f) == (f[1] * 255) \div f[2]

\* quantized_slopes_256 with the low slope rounded down
quantized_slopes_256_floor(slope_lo, slope_hi) ==
    LET bit_lo == Max(FloorScaled(slope_lo), 0)
        bit_hi == Min(FloorScaled(slope_hi), 255)
    IN  << {b : b \in bit_lo .. Min(128, bit_hi + 1) - 1},
           {b - 128 : b \in Max(128, bit_lo) .. bit_hi} >>

\* quantized_slopes_256: the pair (field_1, field_2)
quantized_slopes_256(slope_lo, slope_hi) ==
    LET bit_lo == Max(CeilScaled(slope_lo), 0)
        bit_hi == Min(FloorScaled(slope_hi), 255)
    IN  << {b : b \in bit_lo .. Min(128, bit_hi + 1) - 1},
           {b - 128 : b \in Max(128, bit_lo) .. bit_hi} >>

\* is_visible looking at the first word only
is_visible_word_1(visible_1, visible_2, blocked_1, blocked_2) ==
    (visible_1 \ (visible_1 \cap blocked_1)) # {}

\* is_visible: some bit of the part is not in the blocked bits
is_visible(visible_1, visible_2, blocked_1, blocked_2) ==
    \/ (visible_1 \ (visible_1 \cap blocked_1)) # {}
    \/ (visible_2 \ (visible_2 \cap blocked_2)) # {}

\* ------------------------------------------------------------------- tables
\* a slip in FovTile.new: buffer_bits is the tile's own buffer_ix for every dsec
FovTile_new_ownbit(dpri, dsec, octant) ==
    LET rel == pri_sec_to_relative(dpri, dsec, octant)
        ts == tile_slopes(dpri, dsec)
        ns == CASE octant = 1 -> tile_acute_slopes(dpri, dsec)
                [] octant = 2 -> tile_near_slopes(dpri, dsec)
                [] octant = 3 -> tile_near_slopes(dpri, dsec)
                [] octant = 4 -> tile_acute_slopes(dpri, dsec)
                [] octant = 5 -> tile_obtuse_slopes(dpri, dsec)
                [] octant = 6 -> tile_far_slopes(dpri, dsec)
                [] octant = 7 -> tile_far_slopes(dpri, dsec)
                [] octant = 8 -> tile_obtuse_slopes(dpri, dsec)
        ws == CASE octant = 1 -> tile_near_slopes(dpri, dsec)
                [] octant = 2 -> tile_acute_slopes(dpri, dsec)
                [] octant = 3 -> tile_obtuse_slopes(dpri, dsec)
                [] octant = 4 -> tile_far_slopes(dpri, dsec)
                [] octant = 5 -> tile_far_slopes(dpri, dsec)
                [] octant = 6 -> tile_obtuse_slopes(dpri, dsec)
                [] octant = 7 -> tile_acute_slopes(dpri, dsec)
                [] octant = 8 -> tile_near_slopes(dpri, dsec)
        n_wall_bits == quantized_slopes_256(ns[1], ns[2])
        w_wall_bits == quantized_slopes_256(ws[1], ws[2])
        tile_bits == quantized_slopes_256(ts[1], ts[2])
    IN  [ rx |-> rel[1], ry |-> rel[2], dpri |-> dpri, dsec |-> dsec,
          north_wall_bits_1 |-> n_wall_bits[1],
          north_wall_bits_2 |-> n_wall_bits[2],
          west_wall_bits_1 |-> w_wall_bits[1],
          west_wall_bits_2 |-> w_wall_bits[2],
          tile_bits_1 |-> tile_bits[1],
          tile_bits_2 |-> tile_bits[2],
          buffer_ix |-> {dsec},
          buffer_bits |-> {dsec} ]

\* FovTile.new
FovTile_new(dpri, dsec, octant) ==
    LET rel == pri_sec_to_relative(dpri, dsec, octant)
        ts == tile_slopes(dpri, dsec)
        ns == CASE octant = 1 -> tile_acute_slopes(dpri, dsec)
                [] octant = 2 -> tile_near_slopes(dpri, dsec)
                [] octant = 3 -> tile_near_slopes(dpri, dsec)
                [] octant = 4 -> tile_acute_slopes(dpri, dsec)
                [] octant = 5 -> tile_obtuse_slopes(dpri, dsec)
                [] octant = 6 -> tile_far_slopes(dpri, dsec)
                [] octant = 7 -> tile_far_slopes(dpri, dsec)
                [] octant = 8 -> tile_obtuse_slopes(dpri, dsec)
        ws == CASE octant = 1 -> tile_near_slopes(dpri, dsec)
                [] octant = 2 -> tile_acute_slopes(dpri, dsec)
                [] octant = 3 -> tile_obtuse_slopes(dpri, dsec)
                [] octant = 4 -> tile_far_slopes(dpri, dsec)
                [] octant = 5 -> tile_far_slopes(dpri, dsec)
                [] octant = 6 -> tile_obtuse_slopes(dpri, dsec)
                [] octant = 7 -> tile_acute_slopes(dpri, dsec)
                [] octant = 8 -> tile_near_slopes(dpri, dsec)
        n_wall_bits == quantized_slopes_256(ns[1], ns[2])
        w_wall_bits == quantized_slopes_256(ws[1], ws[2])
        tile_bits == quantized_slopes_256(ts[1], ts[2])
        buffer_ix == {dsec}
        buffer_bits == IF dsec = 0 THEN buffer_ix
                       ELSE buffer_ix \cup {dsec - 1}
    IN  [ rx |-> rel[1], ry |-> rel[2], dpri |-> dpri, dsec |-> dsec,
          north_wall_bits_1 |-> n_wall_bits[1],
          north_wall_bits_2 |-> n_wall_bits[2],
          west_wall_bits_1 |-> w_wall_bits[1],
          west_wall_bits_2 |-> w_wall_bits[2],
          tile_bits_1 |-> tile_bits[1],
          tile_bits_2 |-> tile_bits[2],
          buffer_ix |-> buffer_ix,
          buffer_bits |-> buffer_bits ]

\* the shape test measured to the cell's centre instead of its near corner
InShape_centre(dpri, dsec, radius) ==
    4 * dpri * dpri + 4 * dsec * dsec < 4 * radius * radius

\* the circular-shape test of FovOctant.new: r < limit with
\* r = (dpri - 0.5)^2 + (dsec - 0.5)^2, both sides multiplied by 4
InShape(dpri, dsec, radius) ==
    IF dpri = 0
    THEN (2 * dpri - 1) * (2 * dpri - 1) + 4 * dsec * dsec < 4 * radius * radius
    ELSE (2 * dpri - 1) * (2 * dpri - 1) + (2 * dsec - 1) * (2 * dsec - 1)
             < 4 * radius * radius

\* the tiles appended by the inner loop of FovOctant.new for one dpri
RECURSIVE ColumnTiles(_, _, _, _)
ColumnTiles(dpri, dsec, radius, octant) ==
    IF dsec > dpri THEN <<>>
    ELSE (IF InShape(dpri, dsec, radius)
          THEN <<FovTile_new(dpri, dsec, octant)>> ELSE <<>>)
         \o ColumnTiles(dpri, dsec + 1, radius, octant)

\* the outer loop recording the count before each column instead of after it
RECURSIVE FovOctant_loop_before(_, _, _, _, _)
FovOctant_loop_before(dpri, radius, octant, tiles, max_fov_ix) ==
    IF dpri > radius THEN [tiles |-> tiles, max_fov_ix |-> max_fov_ix]
    ELSE LET t == tiles \o ColumnTiles(dpri, 0, radius, octant)
         IN  FovOctant_loop_before(dpri + 1, radius, octant, t,
                                   Append(max_fov_ix, Len(tiles)))

\* FovOctant.new: the outer loop, from column dpri on
RECURSIVE FovOctant_loop(_, _, _, _, _)
FovOctant_loop(dpri, radius, octant, tiles, max_fov_ix) ==
    IF dpri > radius THEN [tiles |-> tiles, max_fov_ix |-> max_fov_ix]
    ELSE LET t == tiles \o ColumnTiles(dpri, 0, radius, octant)
         IN  FovOctant_loop(dpri + 1, radius, octant, t,
                            Append(max_fov_ix, Len(t)))

\* FovOctant.new; max_fov_ix is a Python list indexed from 0, so
\* max_fov_ix[d] of the code is max_fov_ix[d + 1] here
FovOctant_new(radius, octant) ==
    FovOctant_loop(1, radius, octant, <<>>, <<0>>)

\* FovMap.new: the eight octants of one radius
FovMap_new(radius) == [o \in Octants |-> FovOctant_new(radius, o)]

\* FovMaps.new: maps[r] is the map of radius r, for r in range(max_fov_radius)
FovMaps_new(max_fov_radius) == [r \in 0 .. max_fov_radius - 1 |-> FovMap_new(r)]

\* the table set of the model: the maps of radius 0 .. MaxRadius
fov_maps == FovMaps_new(MaxRadius + 1)

\* -------------------------------------------------------------- persistence
\* json.dumps / json.loads are taken as exact on the values used here (lists,
\* dicts with string keys, ints of any size): the text of a file is identified
\* with the JSON value it holds.

\* FovTile.__init__: the twelve positional arguments
FovTile(rx, ry, dpri, dsec, north_wall_bits_1, north_wall_bits_2, west_wall_bits_1, west_wall_bits_2, tile_bits_1, tile_bits_2, buffer_ix, buffer_bits) ==
    [ rx |-> rx, ry |-> ry, dpri |-> dpri, dsec |-> dsec,
      north_wall_bits_1 |-> north_wall_bits_1,
      north_wall_bits_2 |-> north_wall_bits_2,
      west_wall_bits_1 |-> west_wall_bits_1,
      west_wall_bits_2 |-> west_wall_bits_2,
      tile_bits_1 |-> tile_bits_1,
      tile_bits_2 |-> tile_bits_2,
      buffer_ix |-> buffer_ix,
      buffer_bits |-> buffer_bits ]

\* FovTile.to_dict
FovTile_to_dict(self) ==
    [ rx |-> self.rx, ry |-> self.ry, dp |-> self.dpri, ds |-> self.dsec,
      nw1 |-> self.north_wall_bits_1, nw2 |-> self.north_wall_bits_2,
      ww1 |-> self.west_wall_bits_1, ww2 |-> self.west_wall_bits_2,
      tb1 |-> self.tile_bits_1, tb2 |-> self.tile_bits_2,
      bix |-> self.buffer_ix, bbs |-> self.buffer_bits ]

\* a slip in FovTile.from_dict: the keys of the two walls exchanged
FovTile_from_dict_walls(d) ==
    FovTile(d.rx, d.ry, d.dp, d.ds, d.ww1, d.ww2, d.nw1, d.nw2,
            d.tb1, d.tb2, d.bix, d.bbs)

\* FovTile.from_dict
FovTile_from_dict(d) ==
    FovTile(d.rx, d.ry, d.dp, d.ds, d.nw1, d.nw2, d.ww1, d.ww2,
            d.tb1, d.tb2, d.bix, d.bbs)

\* `[t.to_dict() for t in self.tiles]`, from index i on
RECURSIVE TilesToDicts(_, _)
TilesToDicts(tiles, i) ==
    IF i > Len(tiles) THEN <<>>
    ELSE <<FovTile_to_dict(tiles[i])>> \o TilesToDicts(tiles, i + 1)

\* `[FovTile.from_dict(td) for td in d["t"]]`, from index i on
RECURSIVE DictsToTiles(_, _)
DictsToTiles(t, i) ==
    IF i > Len(t) THEN <<>>
    ELSE <<FovTile_from_dict(t[i])>> \o DictsToTiles(t, i + 1)

\* FovOctant.to_dict
FovOctant_to_dict(self) ==
    [ t |-> TilesToDicts(self.tiles, 1), mfi |-> self.max_fov_ix ]

\* FovOctant.from_dict
FovOctant_from_dict(d) ==
    [ tiles |-> DictsToTiles(d.t, 1),
      max_fov_ix |-> [i \in DOMAIN d.mfi |-> d.mfi[i]] ]

\* FovMap.to_dict
FovMap_to_dict(self) ==
    [ o1 |-> FovOctant_to_dict(self[1]), o2 |-> FovOctant_to_dict(self[2]),
      o3 |-> FovOctant_to_dict(self[3]), o4 |-> FovOctant_to_dict(self[4]),
      o5 |-> FovOctant_to_dict(self[5]), o6 |-> FovOctant_to_dict(self[6]),
      o7 |-> FovOctant_to_dict(self[7]), o8 |-> FovOctant_to_dict(self[8]) ]

\* FovMap.from_dict
FovMap_from_dict(d) ==
    << FovOctant_from_dict(d.o1), FovOctant_from_dict(d.o2),
       FovOctant_from_dict(d.o3), FovOctant_from_dict(d.o4),
       FovOctant_from_dict(d.o5), FovOctant_from_dict(d.o6),
       FovOctant_from_dict(d.o7), FovOctant_from_dict(d.o8) >>

\* FovMaps.to_list: a Python list, element r of the code is element r + 1 here
FovMaps_to_list(self) ==
    [i \in {r + 1 : r \in DOMAIN self} |-> FovMap_to_dict(self[i - 1])]

\* FovMaps.from_json_file_compressed on a file that holds jlist:
\* `maps = [FovMap.from_dict(d) for d in jlist]`
FovMaps_from_list(jlist) ==
    [r \in {i - 1 : i \in DOMAIN jlist} |-> FovMap_from_dict(jlist[r + 1])]

\* ---------------------------------------------------------------- tile map
\* Blockers / Tile: the three blocker flags of one cell
Blockers(structure, wall_n, wall_w) ==
    [structure |-> structure, wall_n |-> wall_n, wall_w |-> wall_w]

NoBlockers == Blockers(FALSE, FALSE, FALSE)

\* Tile.__init__: the id and the coordinates the tile was made with, and
\* the flags of its blockers
Tile(tid, x, y, blockers) ==
    [ tid |-> tid, x |-> x, y |-> y, structure |-> blockers.structure,
      wall_n |-> blockers.wall_n, wall_w |-> blockers.wall_w ]

\* the list comprehension of TileMap.__init__, from (x, y) on:
\* `for y in range(ydims) for x in range(xdims)`, `blocked.get((x, y), Blockers())`
RECURSIVE TileList(_, _, _, _, _)
TileList(blocked, xdims, ydims, x, y) ==
    IF y >= ydims THEN <<>>
    ELSE IF x >= xdims THEN TileList(blocked, xdims, ydims, 0, y + 1)
    ELSE <<Tile(to_tile_id(x, y, xdims), x, y,
                IF <<x, y>> \in DOMAIN blocked THEN blocked[<<x, y>>] ELSE NoBlockers)>>
         \o TileList(blocked, xdims, ydims, x + 1, y)

\* TileMap.__init__: `tiles` is a Python list, tiles[i] of the code is tiles[i] here
TileMap(blocked, xdims, ydims) ==
    LET list == TileList(blocked, xdims, ydims, 0, 0)
    IN  [ xdims |-> xdims, ydims |-> ydims,
          tiles |-> [i \in 0 .. Len(list) - 1 |-> list[i + 1]] ]

\* Python's list[i] on a list of n elements: IndexError outside -n .. n - 1,
\* a negative index counts from the end
IndexError(n, i) == i < -n \/ i >= n
PyIndex(n, i) == IF i < 0 THEN n + i ELSE i

\* TileMap.tile_at raises IndexError
tile_at_raises(tm, x, y) == IndexError(tm.xdims * tm.ydims, x + y * tm.xdims)

\* tile_at with the coordinates exchanged in the index
tile_at_transposed(tm, x, y) == tm.tiles[PyIndex(tm.xdims * tm.ydims, y + x * tm.xdims)]

\* TileMap.tile_at: `tid = x + y * self.xdims; return self.tiles[tid]`
tile_at(tm, x, y) == tm.tiles[PyIndex(tm.xdims * tm.ydims, x + y * tm.xdims)]

\* ------------------------------------------------------------ octant sweep
WallW == {8, 4}    \* visible_parts |= 0b1100
WallN == {8, 2}    \* visible_parts |= 0b1010
TileT == {1}       \* visible_parts |= 0b0001

\* a slip in the west wall's test: `tile.wall_w and` left out
CheckWest_nowall(e, tile, ft) ==
    LET t == [e EXCEPT !.order = Append(@, "W"), !.seen = Append(@, <<e.b1, e.b2>>)]
    IN  IF is_visible(ft.west_wall_bits_1, ft.west_wall_bits_2, e.b1, e.b2)
        THEN [t EXCEPT !.b1 = @ \cup ft.west_wall_bits_1,
                       !.b2 = @ \cup ft.west_wall_bits_2,
                       !.parts = @ \cup WallW]
        ELSE t

\* `if tile.wall_w and is_visible(w_wall_bits, blocked): ...`
\* e = [b1, b2: blocked bits, parts: visible_parts, and as history only:
\* t1, t2: the blocked bits the tile test saw, order: the elements in the
\* order their `if` was reached, seen: for each, the blocked bits it saw]
CheckWest(e, tile, ft) ==
    LET t == [e EXCEPT !.order = Append(@, "W"), !.seen = Append(@, <<e.b1, e.b2>>)]
    IN  IF tile.wall_w /\ is_visible(ft.west_wall_bits_1, ft.west_wall_bits_2, e.b1, e.b2)
        THEN [t EXCEPT !.b1 = @ \cup ft.west_wall_bits_1,
                       !.b2 = @ \cup ft.west_wall_bits_2,
                       !.parts = @ \cup WallW]
        ELSE t

\* `if tile.wall_n and is_visible(n_wall_bits, blocked): ...`
CheckNorth(e, tile, ft) ==
    LET t == [e EXCEPT !.order = Append(@, "N"), !.seen = Append(@, <<e.b1, e.b2>>)]
    IN  IF tile.wall_n /\ is_visible(ft.north_wall_bits_1, ft.north_wall_bits_2, e.b1, e.b2)
        THEN [t EXCEPT !.b1 = @ \cup ft.north_wall_bits_1,
                       !.b2 = @ \cup ft.north_wall_bits_2,
                       !.parts = @ \cup WallN]
        ELSE t

\* `if is_visible(tile_bits, blocked): visible_parts |= 0b0001`
CheckTile(e, tile, ft) ==
    LET seen == [e EXCEPT !.t1 = e.b1, !.t2 = e.b2, !.order = Append(@, "T"),
                          !.seen = Append(@, <<e.b1, e.b2>>)]
    IN  IF is_visible(ft.tile_bits_1, ft.tile_bits_2, e.b1, e.b2)
        THEN [seen EXCEPT !.parts = @ \cup TileT]
        ELSE seen

\* octants 1 and 2: the tile test with the structure nested in it
CheckTileStructure(e, tile, ft) ==
    LET seen == [e EXCEPT !.t1 = e.b1, !.t2 = e.b2, !.order = Append(@, "T"),
                          !.seen = Append(@, <<e.b1, e.b2>>)]
    IN  IF is_visible(ft.tile_bits_1, ft.tile_bits_2, e.b1, e.b2)
        THEN IF tile.structure
             THEN [seen EXCEPT !.parts = @ \cup TileT,
                               !.b1 = @ \cup ft.tile_bits_1,
                               !.b2 = @ \cup ft.tile_bits_2]
             ELSE [seen EXCEPT !.parts = @ \cup TileT]
        ELSE seen

\* a slip at the end of an entry: `if tile.structure` left out
CheckStructure_floor(e, tile, ft) ==
    IF e.parts # {}
    THEN [e EXCEPT !.b1 = @ \cup ft.tile_bits_1,
                   !.b2 = @ \cup ft.tile_bits_2]
    ELSE e

\* octants 3..8: `if visible_parts > 0: ... if tile.structure: blocked |= tile_bits`
CheckStructure(e, tile, ft) ==
    IF e.parts # {} /\ tile.structure
    THEN [e EXCEPT !.b1 = @ \cup ft.tile_bits_1,
                   !.b2 = @ \cup ft.tile_bits_2]
    ELSE e

\* the element tests of one entry, in the order each octant's function makes them
Checks_1(e, tile, ft) ==
    CheckTileStructure(CheckNorth(CheckWest(e, tile, ft), tile, ft), tile, ft)
Checks_2(e, tile, ft) ==
    CheckTileStructure(CheckWest(CheckNorth(e, tile, ft), tile, ft), tile, ft)
Checks_3(e, tile, ft) ==
    CheckStructure(CheckWest(CheckTile(CheckNorth(e, tile, ft), tile, ft), tile, ft), tile, ft)
\* octant 4 without the structure test at the end of an entry
Checks_4_nostructure(e, tile, ft) ==
    CheckWest(CheckTile(CheckNorth(e, tile, ft), tile, ft), tile, ft)

Checks_4(e, tile, ft) ==
    CheckStructure(CheckWest(CheckTile(CheckNorth(e, tile, ft), tile, ft), tile, ft), tile, ft)
Checks_5(e, tile, ft) ==
    CheckStructure(CheckWest(CheckNorth(CheckTile(e, tile, ft), tile, ft), tile, ft), tile, ft)
Checks_6(e, tile, ft) ==
    CheckStructure(CheckWest(CheckNorth(CheckTile(e, tile, ft), tile, ft), tile, ft), tile, ft)
Checks_7(e, tile, ft) ==
    CheckStructure(CheckNorth(CheckTile(CheckWest(e, tile, ft), tile, ft), tile, ft), tile, ft)
Checks_8(e, tile, ft) ==
    CheckStructure(CheckNorth(CheckTile(CheckWest(e, tile, ft), tile, ft), tile, ft), tile, ft)

Checks(octant, e, tile, ft) ==
    CASE octant = 1 -> Checks_1(e, tile, ft)
      [] octant = 2 -> Checks_2(e, tile, ft)
      [] octant = 3 -> Checks_3(e, tile, ft)
      [] octant = 4 -> Checks_4(e, tile, ft)
      [] octant = 5 -> Checks_5(e, tile, ft)
      [] octant = 6 -> Checks_6(e, tile, ft)
      [] octant = 7 -> Checks_7(e, tile, ft)
      [] octant = 8 -> Checks_8(e, tile, ft)

\* the locals of a sweep before its loop; `log` is a history of the loop: one
\* record per entry that passed the boundary filter
SweepLocals(blocked_1, blocked_2) ==
    [ blocked_bits_1 |-> blocked_1, blocked_bits_2 |-> blocked_2,
      prev_buffer |-> {}, curr_buffer |-> {}, prev_pri |-> 0,
      visible_tiles |-> <<>>, log |-> <<>>, error |-> FALSE ]

\* the sweep ended by an IndexError
SweepError(s) == [s EXCEPT !.error = TRUE]

\* a slip at the start of a column: the blocked bits cleared with the buffer
NextColumn_cleared(s, fov_tile) ==
    IF fov_tile.dpri > s.prev_pri
    THEN [s EXCEPT !.prev_buffer = s.curr_buffer, !.curr_buffer = {},
                   !.prev_pri = @ + 1,
                   !.blocked_bits_1 = {}, !.blocked_bits_2 = {}]
    ELSE s

\* `if fov_tile.dpri > prev_pri: prev_buffer = curr_buffer; curr_buffer = 0; prev_pri += 1`
NextColumn(s, fov_tile) ==
    IF fov_tile.dpri > s.prev_pri
    THEN [s EXCEPT !.prev_buffer = s.curr_buffer, !.curr_buffer = {},
                   !.prev_pri = @ + 1]
    ELSE s

\* a slip in the buffer filter: the operands of the comparison exchanged
BufferFilter_swapped(s, fov_tile) ==
    fov_tile.buffer_bits \cap s.prev_buffer = s.prev_buffer

\* the buffer filter: `buffer_bits & prev_buffer == buffer_bits`
BufferFilter(s, fov_tile) == fov_tile.buffer_bits \cap s.prev_buffer = fov_tile.buffer_bits

LogEntry(fov_tile, pruned, parts, hid_1, hid_2, order, seen) ==
    [ dpri |-> fov_tile.dpri, dsec |-> fov_tile.dsec, pruned |-> pruned,
      parts |-> parts, hid_1 |-> hid_1, hid_2 |-> hid_2,
      order |-> order, seen |-> seen ]

\* one iteration of `for fov_tile in fov_tiles[:pri_ix_max]`
LoopBody(octant, s, fov_tile, ox, oy, sec_ix_max, tilemap) ==
    IF fov_tile.dsec > sec_ix_max THEN s
    ELSE
      LET c == NextColumn(s, fov_tile)
      IN  IF BufferFilter(c, fov_tile)
          THEN [c EXCEPT !.curr_buffer = @ \cup fov_tile.buffer_ix,
                         !.log = Append(@, LogEntry(fov_tile, TRUE, {},
                                     c.blocked_bits_1, c.blocked_bits_2,
                                     <<>>, <<>>))]
          ELSE IF tile_at_raises(tilemap, ox + fov_tile.rx, oy + fov_tile.ry)
          THEN SweepError(c)
          ELSE
            LET tile == tile_at(tilemap, ox + fov_tile.rx, oy + fov_tile.ry)
                e == Checks(octant,
                            [b1 |-> c.blocked_bits_1, b2 |-> c.blocked_bits_2,
                             parts |-> {}, t1 |-> {}, t2 |-> {},
                             order |-> <<>>, seen |-> <<>>],
                            tile, fov_tile)
            IN  [c EXCEPT
                   !.blocked_bits_1 = e.b1,
                   !.blocked_bits_2 = e.b2,
                   !.visible_tiles = IF e.parts # {}
                                     THEN Append(@, <<tile.tid, e.parts>>) ELSE @,
                   !.curr_buffer = IF 1 \notin e.parts
                                   THEN @ \cup fov_tile.buffer_ix ELSE @,
                   !.prev_pri = fov_tile.dpri,
                   !.log = Append(@, LogEntry(fov_tile, FALSE, e.parts, e.t1, e.t2,
                                              e.order, e.seen))]

\* the loop over fov_tiles[:pri_ix_max], from index i (1-based) on
RECURSIVE Loop(_, _, _, _, _, _, _, _, _)
Loop(octant, s, fov_tiles, i, pri_ix_max, ox, oy, sec_ix_max, tilemap) ==
    IF s.error \/ i > pri_ix_max \/ i > Len(fov_tiles) THEN s
    ELSE Loop(octant,
              LoopBody(octant, s, fov_tiles[i], ox, oy, sec_ix_max, tilemap),
              fov_tiles, i + 1, pri_ix_max, ox, oy, sec_ix_max, tilemap)

\* `pri_ix_max = fov_octant.max_fov_ix[max_dpri]` raises IndexError
max_fov_ix_raises(fov_octant, max_dpri) ==
    IndexError(Len(fov_octant.max_fov_ix), max_dpri)

\* `fov_octant.max_fov_ix[max_dpri]`
max_fov_ix_at(fov_octant, max_dpri) ==
    fov_octant.max_fov_ix[PyIndex(Len(fov_octant.max_fov_ix), max_dpri) + 1]

\* the set of bits of `blocked_bits_2 |= 2 ** 127` (bit 255 of the slope range)
OriginWestWallBits == {127}

get_visible_tiles_1(ox, oy, max_dpri, max_dsec, tilemap, fov_octant) ==
    IF max_fov_ix_raises(fov_octant, max_dpri) THEN SweepError(SweepLocals({}, {}))
    ELSE Loop(1, SweepLocals({}, {}), fov_octant.tiles, 1,
              max_fov_ix_at(fov_octant, max_dpri), ox, oy, max_dsec, tilemap)

get_visible_tiles_2(ox, oy, max_dpri, max_dsec, tilemap, fov_octant) ==
    IF max_fov_ix_raises(fov_octant, max_dpri) THEN SweepError(SweepLocals({}, {}))
    ELSE Loop(2, SweepLocals({}, {}), fov_octant.tiles, 1,
              max_fov_ix_at(fov_octant, max_dpri), ox, oy, max_dsec, tilemap)

get_visible_tiles_3(ox, oy, origin, max_dpri, max_dsec, tilemap, fov_octant) ==
    IF max_fov_ix_raises(fov_octant, max_dpri) THEN SweepError(SweepLocals({}, {}))
    ELSE Loop(3, SweepLocals({}, IF origin.wall_w THEN OriginWestWallBits ELSE {}),
              fov_octant.tiles, 1,
              max_fov_ix_at(fov_octant, max_dpri), ox, oy, max_dsec, tilemap)

\* octant 4 without its early return
get_visible_tiles_4_noexit(ox, oy, origin, max_dpri, max_dsec, tilemap, fov_octant) ==
    Loop(4, SweepLocals({}, {}), fov_octant.tiles, 1,
         max_fov_ix_at(fov_octant, max_dpri), ox, oy, max_dsec, tilemap)

get_visible_tiles_4(ox, oy, origin, max_dpri, max_dsec, tilemap, fov_octant) ==
    IF max_fov_ix_raises(fov_octant, max_dpri) THEN SweepError(SweepLocals({}, {}))
    ELSE IF origin.wall_w THEN SweepLocals({}, {})
    ELSE Loop(4, SweepLocals({}, {}), fov_octant.tiles, 1,
              max_fov_ix_at(fov_octant, max_dpri), ox, oy, max_dsec, tilemap)

get_visible_tiles_5(ox, oy, origin, max_dpri, max_dsec, tilemap, fov_octant) ==
    IF max_fov_ix_raises(fov_octant, max_dpri) THEN SweepError(SweepLocals({}, {}))
    ELSE IF origin.wall_w THEN SweepLocals({}, {})
    ELSE Loop(5, SweepLocals({}, {}), fov_octant.tiles, 1,
              max_fov_ix_at(fov_octant, max_dpri), ox, oy, max_dsec, tilemap)

get_visible_tiles_6(ox, oy, origin, max_dpri, max_dsec, tilemap, fov_octant) ==
    IF max_fov_ix_raises(fov_octant, max_dpri) THEN SweepError(SweepLocals({}, {}))
    ELSE IF origin.wall_n THEN SweepLocals({}, {})
    ELSE Loop(6, SweepLocals({}, {}), fov_octant.tiles, 1,
              max_fov_ix_at(fov_octant, max_dpri), ox, oy, max_dsec, tilemap)

get_visible_tiles_7(ox, oy, origin, max_dpri, max_dsec, tilemap, fov_octant) ==
    IF max_fov_ix_raises(fov_octant, max_dpri) THEN SweepError(SweepLocals({}, {}))
    ELSE IF origin.wall_n THEN SweepLocals({}, {})
    ELSE Loop(7, SweepLocals({}, {}), fov_octant.tiles, 1,
              max_fov_ix_at(fov_octant, max_dpri), ox, oy, max_dsec, tilemap)

get_visible_tiles_8(ox, oy, max_dpri, max_dsec, tilemap, fov_octant) ==
    IF max_fov_ix_raises(fov_octant, max_dpri) THEN SweepError(SweepLocals({}, {}))
    ELSE Loop(8, SweepLocals({}, {}), fov_octant.tiles, 1,
              max_fov_ix_at(fov_octant, max_dpri), ox, oy, max_dsec, tilemap)

\* a slip in the merge: a record of the list replaces the dict's record
RECURSIVE update_visible_tiles_assign(_, _)
update_visible_tiles_assign(to_dict, from_list) ==
    IF from_list = <<>> THEN to_dict
    ELSE LET tid == Head(from_list)[1]
             visible_tile == Head(from_list)[2]
         IN  update_visible_tiles_assign(
                 [t \in DOMAIN to_dict \cup {tid} |->
                     IF t = tid THEN visible_tile ELSE to_dict[t]],
                 Tail(from_list))

\* update_visible_tiles: OR every (tid, parts) of the list into the dict
RECURSIVE update_visible_tiles(_, _)
update_visible_tiles(to_dict, from_list) ==
    IF from_list = <<>> THEN to_dict
    ELSE LET tid == Head(from_list)[1]
             visible_tile == Head(from_list)[2]
             current == IF tid \in DOMAIN to_dict THEN to_dict[tid] ELSE {}
         IN  update_visible_tiles(
                 [t \in DOMAIN to_dict \cup {tid} |->
                     IF t = tid THEN current \cup visible_tile ELSE to_dict[t]],
                 Tail(from_list))

\* ------------------------------------------------------------------ fov_calc
\* a slip in the origin's record: the north wall sets the west wall's bits
origin_visible_copied(origin) ==
    {1} \cup (IF origin.wall_w THEN WallW ELSE {})
        \cup (IF origin.wall_n THEN WallW ELSE {})

\* the origin's record: T, plus W and C / N and C for its own walls
origin_visible(origin) ==
    {1} \cup (IF origin.wall_w THEN WallW ELSE {})
        \cup (IF origin.wall_n THEN WallN ELSE {})

\* the call fov_calc makes for one octant: boundary_radii is taken for octants
\* 1, 4, 5 and 8 and its result is passed swapped to octants 2, 3, 6 and 7
OctantSweep(octant, x, y, tm, fov_map, r) ==
    LET origin == tile_at(tm, x, y)
        m1 == boundary_radii(x, y, tm.xdims, tm.ydims, 1, r)
        m4 == boundary_radii(x, y, tm.xdims, tm.ydims, 4, r)
        m5 == boundary_radii(x, y, tm.xdims, tm.ydims, 5, r)
        m8 == boundary_radii(x, y, tm.xdims, tm.ydims, 8, r)
    IN  CASE octant = 1 -> get_visible_tiles_1(x, y, m1[1], m1[2], tm, fov_map[1])
          [] octant = 2 -> get_visible_tiles_2(x, y, m1[2], m1[1], tm, fov_map[2])
          [] octant = 3 -> get_visible_tiles_3(x, y, origin, m4[2], m4[1], tm, fov_map[3])
          [] octant = 4 -> get_visible_tiles_4(x, y, origin, m4[1], m4[2], tm, fov_map[4])
          [] octant = 5 -> get_visible_tiles_5(x, y, origin, m5[1], m5[2], tm, fov_map[5])
          [] octant = 6 -> get_visible_tiles_6(x, y, origin, m5[2], m5[1], tm, fov_map[6])
          [] octant = 7 -> get_visible_tiles_7(x, y, origin, m8[2], m8[1], tm, fov_map[7])
          [] octant = 8 -> get_visible_tiles_8(x, y, m8[1], m8[2], tm, fov_map[8])

\* fov_calc as a function: the dict after the octants 1 .. octant were merged
RECURSIVE fov_calc_upto(_, _, _, _, _, _)
fov_calc_upto(octant, x, y, tm, fov_map, r) ==
    IF octant = 0
    THEN LET origin == tile_at(tm, x, y)
         IN  [t \in {origin.tid} |-> origin_visible(origin)]
    ELSE update_visible_tiles(
             fov_calc_upto(octant - 1, x, y, tm, fov_map, r),
             OctantSweep(octant, x, y, tm, fov_map, r).visible_tiles)

fov_calc(x, y, tm, fov_map, r) == fov_calc_upto(8, x, y, tm, fov_map, r)

\* ------------------------------------------------------------ state machine
VARIABLES
    tilemap,        \* the TileMap (caller-owned)
    px, py,         \* the observer's cell, the origin of the queries
    radius,         \* the radius of the running / last query
    map_radius,     \* fov_map of the query is fov_maps[map_radius]
    pc,             \* "idle", "o1" .. "o8": the octant fov_calc runs next,
                    \* "par": octants run in any order, "done": returned
    visible_tiles,  \* the dict fov_calc builds and returns
    sweep,          \* the locals of the last octant sweep at its return
    pending,        \* any-order run: the octants not yet swept
    partial,        \* any-order run: the lists returned and not yet merged
    calls,          \* history: the calls of fov_calc so far, where counted
    settings,       \* the Settings object of the program, once constructed
    file,           \* what is stored at fov_maps_path
    tables,         \* where the FovMaps in use came from: "new" or "file"
    args,           \* the arguments of a constructor or helper called directly
    ret             \* what that call returned

\* the variables of run_game's surroundings and of the direct calls
game == <<settings, file, tables, args, ret>>

vars == <<tilemap, px, py, radius, map_radius, pc, visible_tiles, sweep,
          pending, partial, calls, settings, file, tables, args, ret>>

\* the files at fov_maps_path: none, one that is not gzip-compressed JSON, or
\* the list written by FovMaps.new(built_for).to_json_file_compressed, whole
\* or with the tiles of the first octant of every map lost
NoFile == [kind |-> "none", built_for |-> 0, damaged |-> FALSE]
NotJson == [kind |-> "garbage", built_for |-> 0, damaged |-> FALSE]
MapsFile(built_for, damaged) ==
    [kind |-> "maps", built_for |-> built_for, damaged |-> damaged]

\* the JSON list a maps file holds
FileList(f) ==
    LET jlist == FovMaps_to_list(FovMaps_new(f.built_for))
    IN  IF f.damaged
        THEN [i \in DOMAIN jlist |-> [jlist[i] EXCEPT !.o1.t = <<>>]]
        ELSE jlist

\* the FovMaps object in use
HeldMaps ==
    IF tables = "file" THEN FovMaps_from_list(FileList(file))
    ELSE FovMaps_new(settings.max_radius)

\* Settings.__init__ raises ValueError: `if map_dims.x < 1 or map_dims.y < 1`
Settings_raises(a) == a.xdims < 1 \/ a.ydims < 1

\* the members of the QBits enum
QBits == {32, 64, 128}

\* Settings.__init__ with both radii stored as passed
Settings_unclamped(a) ==
    [ xdims |-> a.xdims, ydims |-> a.ydims,
      max_radius |-> a.max_radius,
      radius |-> a.radius,
      qbits |-> a.qbits ]

\* Settings.__init__: the fields kept here
Settings(a) ==
    LET max_radius == Min(a.max_radius, 127)
    IN  [ xdims |-> a.xdims, ydims |-> a.ydims,
          max_radius |-> max_radius,
          radius |-> Min(a.radius, max_radius),
          qbits |-> a.qbits ]

PcOf == <<"o1", "o2", "o3", "o4", "o5", "o6", "o7", "o8", "done">>

Kinds == {"structure", "wall_n", "wall_w"}

\* the sets of at most n elements of S
RECURSIVE SubsetsUpTo(_, _)
SubsetsUpTo(S, n) ==
    IF n = 0 THEN {{}}
    ELSE LET smaller == SubsetsUpTo(S, n - 1)
         IN  smaller \cup {A \cup {p} : A \in smaller, p \in S}

\* the `blocked` dict of TileMap.__init__ for a set of (x, y, kind) placements
BlockedDict(P) ==
    [c \in {<<p[1], p[2]>> : p \in P} |->
        Blockers(<<c[1], c[2], "structure">> \in P,
                 <<c[1], c[2], "wall_n">> \in P,
                 <<c[1], c[2], "wall_w">> \in P)]

Cells(xd, yd) == (0 .. xd - 1) \X (0 .. yd - 1)

Placements(xd, yd, kinds) == {<<c[1], c[2], k>> : c \in Cells(xd, yd), k \in kinds}

\* the state after construction: a map, the observer on it, no query made
InitWith(tm, x, y) ==
    /\ tilemap = tm
    /\ px = x
    /\ py = y
    /\ radius = 0
    /\ map_radius = 0
    /\ pc = "idle"
    /\ visible_tiles = <<>>
    /\ sweep = SweepLocals({}, {})
    /\ pending = {}
    /\ partial = <<>>
    /\ calls = 0
    /\ settings = Settings([xdims |-> tm.xdims, ydims |-> tm.ydims,
                            radius |-> MaxRadius, max_radius |-> MaxRadius + 1,
                            qbits |-> 64])
    /\ file = NoFile
    /\ tables = "new"
    /\ args = <<>>
    /\ ret = <<>>

\* a square map, the observer anywhere on it with any walls of its own, and
\* at most MaxBlockers blockers on the other cells
Init ==
    \E x \in 0 .. MaxDim - 1, y \in 0 .. MaxDim - 1 :
      \E own \in SUBSET {<<x, y, "wall_n">>, <<x, y, "wall_w">>} :
        \E P \in SubsetsUpTo(Placements(MaxDim, MaxDim, Kinds)
                               \ {<<x, y, k>> : k \in Kinds}, MaxBlockers) :
          InitWith(TileMap(BlockedDict(P \cup own), MaxDim, MaxDim), x, y)

\* open maps of every size up to OpenDim x OpenDim, the observer anywhere
InitOpen ==
    \E xd \in 1 .. OpenDim, yd \in 1 .. OpenDim :
      \E x \in 0 .. xd - 1, y \in 0 .. yd - 1 :
        InitWith(TileMap(<<>>, xd, yd), x, y)

\* OpenDim x OpenDim maps with at most one structure, the observer anywhere
InitScene ==
    \E x \in 0 .. OpenDim - 1, y \in 0 .. OpenDim - 1 :
      \E P \in SubsetsUpTo(Placements(OpenDim, OpenDim, {"structure"}), 1) :
        InitWith(TileMap(BlockedDict(P), OpenDim, OpenDim), x, y)

\* callers that pass any origin, two cells beyond the map on every side
\* included, on maps with at most MaxBlockers west walls
InitAnyOrigin ==
    \E x \in -2 .. MaxDim + 1, y \in -2 .. MaxDim + 1 :
      \E P \in SubsetsUpTo(Placements(MaxDim, MaxDim, {"wall_w"}), MaxBlockers) :
        InitWith(TileMap(BlockedDict(P), MaxDim, MaxDim), x, y)

\* maps one cell smaller than the main ones, with the main blockers: the
\* family of the queries whose radius is below the table's
InitTable ==
    \E x \in 0 .. MaxDim - 2, y \in 0 .. MaxDim - 2 :
      \E own \in SUBSET {<<x, y, "wall_n">>, <<x, y, "wall_w">>} :
        \E P \in SubsetsUpTo(Placements(MaxDim - 1, MaxDim - 1, Kinds)
                               \ {<<x, y, k>> : k \in Kinds}, MaxBlockers) :
          InitWith(TileMap(BlockedDict(P \cup own), MaxDim - 1, MaxDim - 1), x, y)

\* structure-only maps, square and one column narrower, the observer anywhere
InitStruct ==
    \E xd \in {MaxDim - 1, MaxDim} :
      \E x \in 0 .. xd - 1, y \in 0 .. MaxDim - 1 :
        \E P \in SubsetsUpTo(Placements(xd, MaxDim, {"structure"}), MaxStructures) :
          InitWith(TileMap(BlockedDict(P), xd, MaxDim), x, y)

\* the start of run_game: the observer on the middle cell (xdims // 2,
\* ydims // 2) of a map with at most MaxBlockers north walls around it
InitPar ==
    LET d == MaxDim - 1
        x == d \div 2
        y == d \div 2
    IN  \E P \in SubsetsUpTo(Placements(d, d, {"wall_n"})
                               \ {<<x, y, k>> : k \in Kinds}, MaxBlockers) :
          InitWith(TileMap(BlockedDict(P), d, d), x, y)

\* long maps with one wall as the only blocker, the observer without walls on
\* the corner cell (0, 0), and a table set that reaches radius FarRadius
InitFar ==
    \E P \in {{p} : p \in Placements(FarDim, 2, {"wall_n", "wall_w"})
                            \ {<<0, 0, k>> : k \in Kinds}} :
      /\ tilemap = TileMap(BlockedDict(P), FarDim, 2)
      /\ px = 0
      /\ py = 0
      /\ radius = 0
      /\ map_radius = 0
      /\ pc = "idle"
      /\ visible_tiles = <<>>
      /\ sweep = SweepLocals({}, {})
      /\ pending = {}
      /\ partial = <<>>
      /\ calls = 0
      /\ settings = Settings([xdims |-> FarDim, ydims |-> 2,
                              radius |-> FarRadius, max_radius |-> FarRadius + 1,
                              qbits |-> 64])
      /\ file = NoFile
      /\ tables = "new"
      /\ args = <<>>
      /\ ret = <<>>

\* a slip at the start of fov_calc: the dict of the last call is kept and the
\* origin's record merged into it
FovCalc_stale(r, m) ==
    /\ pc \in {"idle", "done"}
    /\ r <= m
    /\ radius' = r
    /\ map_radius' = m
    /\ LET origin == tile_at(tilemap, px, py)
       IN  visible_tiles' = update_visible_tiles(
               visible_tiles, <<<<origin.tid, origin_visible(origin)>>>>)
    /\ sweep' = SweepLocals({}, {})
    /\ pc' = PcOf[1]
    /\ UNCHANGED <<tilemap, px, py, pending, partial>>

\* fov_calc is called with radius r and the map of radius m: the dict is
\* created with the origin's record
FovCalc(r, m) ==
    /\ pc \in {"idle", "done"}
    /\ r <= m
    /\ radius' = r
    /\ map_radius' = m
    /\ IF tile_at_raises(tilemap, px, py)
       THEN /\ pc' = "error"
            /\ UNCHANGED visible_tiles
       ELSE /\ LET origin == tile_at(tilemap, px, py)
               IN  visible_tiles' = [t \in {origin.tid} |-> origin_visible(origin)]
            /\ pc' = PcOf[1]
    /\ sweep' = SweepLocals({}, {})
    /\ UNCHANGED <<tilemap, px, py, pending, partial>>

\* run_game calls fov_calc(x, y, tilemap, fov_maps.maps[m], r) on the map tm
Redraw(tm, x, y, r, m) ==
    /\ tilemap' = tm
    /\ px' = x
    /\ py' = y
    /\ radius' = r
    /\ map_radius' = m
    /\ IF tile_at_raises(tm, x, y)
       THEN /\ pc' = "error"
            /\ UNCHANGED visible_tiles
       ELSE /\ LET origin == tile_at(tm, x, y)
               IN  visible_tiles' = [t \in {origin.tid} |-> origin_visible(origin)]
            /\ pc' = PcOf[1]
    /\ sweep' = SweepLocals({}, {})
    /\ UNCHANGED <<pending, partial, calls>>

\* get_visible_tiles_<octant> runs and update_visible_tiles merges its list
\* an IndexError raised in the sweep ends fov_calc: no dict is returned
RunOctant(octant) ==
    /\ pc = PcOf[octant]
    /\ sweep' = OctantSweep(octant, px, py, tilemap, HeldMaps[map_radius], radius)
    /\ IF sweep'.error
       THEN /\ pc' = "error"
            /\ UNCHANGED visible_tiles
       ELSE /\ visible_tiles' = update_visible_tiles(visible_tiles, sweep'.visible_tiles)
            /\ pc' = PcOf[octant + 1]
    /\ UNCHANGED <<tilemap, px, py, radius, map_radius, pending, partial, calls, game>>

Octant1 == RunOctant(1)
Octant2 == RunOctant(2)
Octant3 == RunOctant(3)
Octant4 == RunOctant(4)
Octant5 == RunOctant(5)
Octant6 == RunOctant(6)
Octant7 == RunOctant(7)
Octant8 == RunOctant(8)

\* run_game: fov_calc(px, py, tilemap, fov_maps.maps[radius], radius)
Query == (\E r \in 0 .. MaxRadius : FovCalc(r, r)) /\ UNCHANGED <<calls, game>>

\* the same, the calls counted: the first MaxCalls queries of a run
QueryCounted ==
    /\ calls < MaxCalls
    /\ \E r \in 0 .. MaxRadius : FovCalc(r, r)
    /\ calls' = calls + 1
    /\ UNCHANGED game

\* fov_calc takes the map and the radius apart: any radius up to the map's
QueryTable ==
    (\E m \in 0 .. MaxRadius : \E r \in 0 .. m : FovCalc(r, m))
      /\ UNCHANGED <<calls, game>>

\* run_game's query at the two ends of the long range
QueryFar ==
    (\E r \in {MaxRadius, FarRadius} : FovCalc(r, r)) /\ UNCHANGED <<calls, game>>

Octants1to8 ==
    \/ Octant1 \/ Octant2 \/ Octant3 \/ Octant4
    \/ Octant5 \/ Octant6 \/ Octant7 \/ Octant8

\* --- the octants of one query run in any order (they share no state) ---
QueryPar ==
    /\ pc \in {"idle", "done"}
    /\ radius' = MaxRadius
    /\ map_radius' = MaxRadius
    /\ LET origin == tile_at(tilemap, px, py)
       IN  visible_tiles' = [t \in {origin.tid} |-> origin_visible(origin)]
    /\ pc' = "par"
    /\ pending' = Octants
    /\ partial' = <<>>
    /\ UNCHANGED <<tilemap, px, py, sweep, calls, game>>

\* one octant's sweep returns its list
SweepPar(octant) ==
    /\ pc = "par"
    /\ octant \in pending
    /\ pending' = pending \ {octant}
    /\ partial' = [o \in DOMAIN partial \cup {octant} |->
                     IF o = octant
                     THEN OctantSweep(octant, px, py, tilemap,
                                      fov_maps[map_radius], radius).visible_tiles
                     ELSE partial[o]]
    /\ UNCHANGED <<tilemap, px, py, radius, map_radius, pc, visible_tiles, sweep,
                   calls, game>>

\* one returned list is merged into the dict
MergePar(octant) ==
    /\ pc = "par"
    /\ octant \in DOMAIN partial
    /\ visible_tiles' = update_visible_tiles(visible_tiles, partial[octant])
    /\ partial' = [o \in DOMAIN partial \ {octant} |-> partial[o]]
    /\ pc' = IF pending = {} /\ DOMAIN partial = {octant} THEN "done" ELSE "par"
    /\ UNCHANGED <<tilemap, px, py, radius, map_radius, sweep, pending, calls, game>>

SweepAny == \E o \in Octants : SweepPar(o)
MergeAny == \E o \in Octants : MergePar(o)

\* --- the program: main constructs Settings and TileMap and calls run_game ---
UnsetSettings == [xdims |-> 0, ydims |-> 0, max_radius |-> 0, radius |-> 0, qbits |-> 0]

EmptyMap == [xdims |-> 0, ydims |-> 0, tiles |-> <<>>]

\* the arguments main passes: the map's dimensions, the radii, the
\* resolution (a member of QBits or any other value), the blockers (at most
\* one structure, in the top row)
MainArgs ==
    [ xdims : {0, GameDim}, ydims : {-1, GameDim},
      radius : {0, 1, MaxRadius + 2}, max_radius : {MaxRadius + 1, 200},
      qbits : {64, 7},
      blocked : {BlockedDict(P) :
                   P \in SubsetsUpTo(Placements(GameDim, 1, {"structure"}), 1)} ]

\* the files that may lie at fov_maps_path when the program starts
Files == {NoFile, NotJson} \cup {MapsFile(n, d) : n \in {2, MaxRadius + 1}, d \in BOOLEAN}

InitGame ==
    /\ args \in MainArgs
    /\ file \in Files
    /\ settings = UnsetSettings
    /\ tables = "none"
    /\ ret = <<>>
    /\ tilemap = EmptyMap
    /\ px = 0
    /\ py = 0
    /\ radius = 0
    /\ map_radius = 0
    /\ pc = "main"
    /\ visible_tiles = <<>>
    /\ sweep = SweepLocals({}, {})
    /\ pending = {}
    /\ partial = <<>>
    /\ calls = 0

\* `settings = Settings(...)`: ValueError, or the object with its radii clamped
MakeSettings ==
    /\ pc = "main"
    /\ IF Settings_raises(args)
       THEN /\ pc' = "error"
            /\ UNCHANGED settings
       ELSE /\ pc' = "made"
            /\ settings' = Settings(args)
    /\ UNCHANGED <<tilemap, px, py, radius, map_radius, visible_tiles, sweep,
                   pending, partial, calls, file, tables, args, ret>>

\* `tilemap = TileMap(blocked, settings); run_game(tilemap, settings)` up to
\* the first fov_calc; the table set is built only for the radii of the model
RunGame ==
    /\ pc = "made"
    /\ settings.max_radius <= MaxRadius + 1
    /\ LET tm == TileMap(args.blocked, settings.xdims, settings.ydims)
           x == settings.xdims \div 2
           y == settings.ydims \div 2
       IN  IF file.kind = "none"
           THEN \* FovMaps.new(max_radius), written to the file
                /\ tables' = "new"
                /\ file' = MapsFile(settings.max_radius, FALSE)
                /\ IF IndexError(settings.max_radius, settings.radius)
                   THEN /\ pc' = "error"
                        /\ UNCHANGED <<tilemap, px, py, radius, map_radius,
                                       visible_tiles, sweep, pending, partial, calls>>
                   ELSE Redraw(tm, x, y, settings.radius, settings.radius)
           ELSE IF file.kind = "garbage"
           THEN \* gzip / json raise
                /\ pc' = "error"
                /\ UNCHANGED <<tilemap, px, py, radius, map_radius, visible_tiles,
                               sweep, pending, partial, calls, file, tables>>
           ELSE \* FovMaps.from_json_file_compressed; max_radius = len(maps)
                /\ tables' = "file"
                /\ UNCHANGED file
                /\ IF IndexError(file.built_for, settings.radius)
                   THEN /\ pc' = "error"
                        /\ UNCHANGED <<tilemap, px, py, radius, map_radius,
                                       visible_tiles, sweep, pending, partial, calls>>
                   ELSE Redraw(tm, x, y, Min(settings.radius, file.built_for),
                               settings.radius)
    /\ UNCHANGED <<settings, args, ret>>

\* run_game's max_radius: settings.max_radius, or len(fov_maps.maps) of a file
run_max_radius == IF tables = "file" THEN file.built_for ELSE settings.max_radius

\* K_w / K_s / K_a / K_d within the map, then the redraw
KeyMove ==
    /\ pc = "done"
    /\ \E d \in {<<0, -1>>, <<0, 1>>, <<-1, 0>>, <<1, 0>>} :
         /\ px + d[1] \in 0 .. tilemap.xdims - 1
         /\ py + d[2] \in 0 .. tilemap.ydims - 1
         /\ Redraw(tilemap, px + d[1], py + d[2], radius, map_radius)
    /\ UNCHANGED game

\* K_MINUS: `radius -= 1; fov_map = fov_maps.maps[radius]`, then the redraw
KeyMinus ==
    /\ pc = "done"
    /\ radius > 0
    /\ Redraw(tilemap, px, py, radius - 1, radius - 1)
    /\ UNCHANGED game

\* K_EQUALS: `radius += 1; fov_map = fov_maps.maps[radius]`, then the redraw
KeyEquals ==
    /\ pc = "done"
    /\ radius < run_max_radius
    /\ IF IndexError(run_max_radius, radius + 1)
       THEN /\ pc' = "error"
            /\ radius' = radius + 1
            /\ UNCHANGED <<tilemap, px, py, map_radius, visible_tiles, sweep,
                           pending, partial, calls>>
       ELSE Redraw(tilemap, px, py, radius + 1, radius + 1)
    /\ UNCHANGED game

\* any other key or a mouse movement: the redraw alone
KeyOther ==
    /\ pc = "done"
    /\ Redraw(tilemap, px, py, radius, map_radius)
    /\ UNCHANGED game

\* the program has ended (pygame.QUIT or an exception) and is started again
\* with the same arguments; the file stays
Restart ==
    /\ pc \in {"done", "error"}
    /\ pc' = "main"
    /\ settings' = UnsetSettings
    /\ tables' = "none"
    /\ tilemap' = EmptyMap
    /\ px' = 0
    /\ py' = 0
    /\ radius' = 0
    /\ map_radius' = 0
    /\ visible_tiles' = <<>>
    /\ sweep' = SweepLocals({}, {})
    /\ UNCHANGED <<pending, partial, calls, file, args, ret>>

\* --- the functions called on their own, as the repository's tests call them ---
\* slopes n/d between 0 and 1
Slopes == {f \in (0 .. MaxDen) \X (1 .. MaxDen) : f[1] <= f[2]}

\* words with bits at both ends of the 128
Words == SUBSET {0, 127}

PureArgs ==
    [fn : {"quantized_slopes_256"}, slope_lo : Slopes, slope_hi : Slopes]
    \cup [fn : {"is_visible"}, visible_1 : Words, visible_2 : Words,
                               blocked_1 : Words, blocked_2 : Words]
    \cup {a \in [fn : {"tile_at"}, xdims : 1 .. MaxDim, ydims : 1 .. MaxDim,
                                   x : 0 .. MaxDim - 1, y : 0 .. MaxDim - 1] :
             a.x < a.xdims /\ a.y < a.ydims}
    \cup [fn : {"FovOctant.new"}, radius : (0 .. MaxRadius + 1) \cup {FarRadius},
             octant : Octants]
    \cup [fn : {"bresenham", "fire_line"}, x1 : 0 .. 1, y1 : 0 .. 1,
           x2 : -MaxLine .. MaxLine, y2 : -MaxLine .. MaxLine]
    \cup {a \in [fn : {"octant_transform"}, pri : 0 .. MaxRadius, sec : 0 .. MaxRadius,
                                            a : Octants, b : Octants] :
             a.sec <= a.pri}

InitPure ==
    /\ args \in PureArgs
    /\ ret = <<>>
    /\ pc = "call"
    /\ tilemap = EmptyMap
    /\ px = 0
    /\ py = 0
    /\ radius = 0
    /\ map_radius = 0
    /\ visible_tiles = <<>>
    /\ sweep = SweepLocals({}, {})
    /\ pending = {}
    /\ partial = <<>>
    /\ calls = 0
    /\ settings = UnsetSettings
    /\ file = NoFile
    /\ tables = "none"

Returned(value) ==
    /\ ret' = value
    /\ pc' = "returned"
    /\ UNCHANGED <<tilemap, px, py, radius, map_radius, visible_tiles, sweep,
                   pending, partial, calls, settings, file, tables, args>>

CallQuantized ==
    /\ pc = "call"
    /\ args.fn = "quantized_slopes_256"
    /\ Returned(quantized_slopes_256(args.slope_lo, args.slope_hi))

CallIsVisible ==
    /\ pc = "call"
    /\ args.fn = "is_visible"
    /\ Returned(is_visible(args.visible_1, args.visible_2,
                           args.blocked_1, args.blocked_2))

\* TileMap(blocked, settings).tile_at(x, y) on an open map, with the tile id
\* of (x, y) and the coordinates of that id
CallTileAt ==
    /\ pc = "call"
    /\ args.fn = "tile_at"
    /\ LET tid == to_tile_id(args.x, args.y, args.xdims)
       IN  Returned([ tid |-> tid,
                      coords |-> to_coords(tid, args.xdims),
                      tile |-> tile_at(TileMap(<<>>, args.xdims, args.ydims),
                                       args.x, args.y) ])

CallFovOctantNew ==
    /\ pc = "call"
    /\ args.fn = "FovOctant.new"
    /\ Returned(FovOctant_new(args.radius, args.octant))

\* octant_transform(*pri_sec_to_relative(pri, sec, a), a, b)
CallOctantTransform ==
    /\ pc = "call"
    /\ args.fn = "octant_transform"
    /\ LET rel == pri_sec_to_relative(args.pri, args.sec, args.a)
       IN  Returned(octant_transform(rel[1], rel[2], args.a, args.b))

CallBresenham ==
    /\ pc = "call"
    /\ args.fn = "bresenham"
    /\ Returned(bresenham(args.x1, args.y1, args.x2, args.y2))

CallFireLine ==
    /\ pc = "call"
    /\ args.fn = "fire_line"
    /\ Returned(fire_line(args.x1, args.y1, args.x2, args.y2))

NextPure ==
    \/ CallQuantized \/ CallIsVisible \/ CallTileAt \/ CallFovOctantNew
    \/ CallOctantTransform \/ CallBresenham \/ CallFireLine

Next == Query \/ Octants1to8
NextGame ==
    \/ MakeSettings \/ RunGame \/ KeyMove \/ KeyMinus \/ KeyEquals \/ KeyOther
    \/ Restart \/ Octants1to8
NextTable == QueryTable \/ Octants1to8
NextPar == QueryPar \/ SweepAny \/ MergeAny
NextCounted == QueryCounted \/ Octants1to8
NextFar == QueryFar \/ Octants1to8

Spec == Init /\ [][Next]_vars
SpecOpen == InitOpen /\ [][Next]_vars
SpecScene == InitScene /\ [][NextCounted]_vars
SpecTable == InitTable /\ [][NextTable]_vars
SpecStruct == InitStruct /\ [][Next]_vars
SpecPar == InitPar /\ [][NextPar]_vars
SpecGame == InitGame /\ [][NextGame]_vars
SpecAnyOrigin == InitAnyOrigin /\ [][Next]_vars
SpecPure == InitPure /\ [][NextPure]_vars
SpecFar == InitFar /\ [][NextFar]_vars

\* ================================================================== claims
Abs(n) == IF n < 0 THEN -n ELSE n

Origin == tile_at(tilemap, px, py)

TileId(x, y) == to_tile_id(x, y, tilemap.xdims)

\* the record of cell (x, y) in a result dict, {} when the dict has none
PartsIn(dict, tid) == IF tid \in DOMAIN dict THEN dict[tid] ELSE {}

SeenT(x, y) == 1 \in PartsIn(visible_tiles, TileId(x, y))

MapCells == Cells(tilemap.xdims, tilemap.ydims)

IsOpen ==
    \A tid \in DOMAIN tilemap.tiles :
      /\ ~tilemap.tiles[tid].structure
      /\ ~tilemap.tiles[tid].wall_n
      /\ ~tilemap.tiles[tid].wall_w

\* the octant whose sweep has just returned, 0 when none has
LastOctant ==
    IF \E o \in Octants : pc = PcOf[o + 1]
    THEN CHOOSE o \in Octants : pc = PcOf[o + 1]
    ELSE 0

\* ---- C1
\* C1: on a map without blockers, when the query's radius R is the table's
\* radius, every in-bounds cell with dpri = max(|dx|, |dy|) >= 1,
\* dsec = min(|dx|, |dy|), dpri <= R and (dpri-0.5)^2 + (dsec-0.5)^2 < R^2 is
\* tile-visible in the returned dict; on the open 5 x 5 map, from (2, 2) with
\* radius 3, all 25 cells are.
C1_OpenField ==
    (pc = "done" /\ IsOpen /\ radius = map_radius) =>
      /\ \A c \in MapCells :
           LET dpri == Max(Abs(c[1] - px), Abs(c[2] - py))
               dsec == Min(Abs(c[1] - px), Abs(c[2] - py))
           IN  ( /\ dpri >= 1
                 /\ dpri <= radius
                 /\ (2 * dpri - 1) * (2 * dpri - 1) + (2 * dsec - 1) * (2 * dsec - 1)
                       < 4 * radius * radius )
               => SeenT(c[1], c[2])
      /\ ( tilemap.xdims = 5 /\ tilemap.ydims = 5 /\ px = 2 /\ py = 2 /\ radius = 3 )
           => \A c \in MapCells : SeenT(c[1], c[2])

C1_Witness ==
    /\ pc = "done" /\ IsOpen /\ radius = map_radius
    /\ tilemap.xdims = 5 /\ tilemap.ydims = 5 /\ px = 2 /\ py = 2 /\ radius = 3
    /\ \A c \in MapCells : SeenT(c[1], c[2])

\* ---- C2
\* the 5 x 5 map whose only blocker is a structure at (3, 2), queried from
\* (2, 2) with radius 3
SceneB ==
    /\ pc = "done"
    /\ tilemap = TileMap(BlockedDict({<<3, 2, "structure">>}), 5, 5)
    /\ px = 2 /\ py = 2 /\ radius = 3 /\ map_radius = 3

\* C2 as claimed: in scene B cell (4, 2) is not tile-visible while (4, 1) and
\* (4, 3) are tile-visible.
C2_SceneB_Claimed ==
    SceneB => (~SeenT(4, 2) /\ SeenT(4, 1) /\ SeenT(4, 3))

\* C2 amended: in scene B none of (4, 2), (4, 1), (4, 3) is tile-visible (the
\* structure is adjacent to the observer, so its tile bits span the whole of
\* octants 1 and 8), while the structure itself and the cells (3, 1), (3, 3)
\* beside it are tile-visible.
C2_SceneB ==
    SceneB => /\ ~SeenT(4, 2) /\ ~SeenT(4, 1) /\ ~SeenT(4, 3)
              /\ SeenT(3, 2) /\ SeenT(3, 1) /\ SeenT(3, 3)

C2_Witness == SceneB /\ ~SeenT(4, 2) /\ SeenT(3, 2)

\* ---- C3
\* C3: from the call of fov_calc on, for every radius not above the table's,
\* the dict holds the origin's id, and its record is T, plus W and C iff the
\* origin has a west wall, plus N and C iff it has a north wall; no octant
\* changes it.
C3_OriginRecord ==
    pc # "idle" =>
      /\ Origin.tid \in DOMAIN visible_tiles
      /\ visible_tiles[Origin.tid] =
           {1} \cup (IF Origin.wall_w THEN {4, 8} ELSE {})
               \cup (IF Origin.wall_n THEN {2, 8} ELSE {})

C3_Witness ==
    /\ pc = "done" /\ radius < map_radius /\ radius > 0
    /\ Origin.wall_n /\ ~Origin.wall_w
    /\ visible_tiles[Origin.tid] = {1, 2, 8}
    /\ Cardinality(DOMAIN visible_tiles) > 1

\* ---- C4
\* the map with the origin's west wall taken away
WithoutOriginWestWall ==
    [tilemap EXCEPT !.tiles[Origin.tid].wall_w = FALSE]

\* C4: with a west wall on the origin no cell strictly inside octants 4 and 5
\* (dx < 0, |dy| < |dx|) is tile-visible, and the lists returned by octants
\* 1, 2, 7 and 8 are those returned on the map without that wall; with a north
\* wall on the origin no cell strictly inside octants 6 and 7 (dy < 0,
\* |dx| < |dy|) is tile-visible.
C4_BackWall ==
    /\ (pc = "done" /\ Origin.wall_w) =>
         \A c \in MapCells :
           (c[1] - px < 0 /\ Abs(c[2] - py) < Abs(c[1] - px)) => ~SeenT(c[1], c[2])
    /\ (pc = "done" /\ Origin.wall_n) =>
         \A c \in MapCells :
           (c[2] - py < 0 /\ Abs(c[1] - px) < Abs(c[2] - py)) => ~SeenT(c[1], c[2])
    /\ (LastOctant \in {1, 2, 7, 8} /\ Origin.wall_w) =>
         sweep.visible_tiles =
           OctantSweep(LastOctant, px, py, WithoutOriginWestWall,
                       fov_maps[map_radius], radius).visible_tiles

\* a west wall on the origin, cells to its west, and to its east a blocker
\* that octant 1 reports
C4_Witness ==
    /\ pc = "done" /\ Origin.wall_w /\ px >= 2 /\ radius >= 2
    /\ \E c \in MapCells :
         /\ c[1] > px
         /\ tilemap.tiles[TileId(c[1], c[2])].wall_n
         /\ 2 \in PartsIn(visible_tiles, TileId(c[1], c[2]))

\* ---- C5
\* a tile list with every entry's buffer_bits made unsatisfiable (an index
\* no buffer ever holds), from entry i on
RECURSIVE UnprunableTiles(_, _)
UnprunableTiles(tiles, i) ==
    IF i > Len(tiles) THEN <<>>
    ELSE <<[tiles[i] EXCEPT !.buffer_bits = @ \cup {-1}]>>
           \o UnprunableTiles(tiles, i + 1)

\* the map of a radius with such tile lists: the sweep over it makes no
\* buffer test succeed
Unprunable(fov_map) ==
    [o \in Octants |-> [fov_map[o] EXCEPT !.tiles = UnprunableTiles(@, 1)]]

\* the table entry of an octant at (dpri, dsec)
EntryAt(fov_octant, dpri, dsec) ==
    LET i == CHOOSE j \in DOMAIN fov_octant.tiles :
               fov_octant.tiles[j].dpri = dpri /\ fov_octant.tiles[j].dsec = dsec
    IN  fov_octant.tiles[i]

\* C5: every octant's sweep returns the list, and ends with the blocked bits,
\* of the same sweep with the buffer test removed; and every entry the buffer
\* test skipped has its tile, north-wall and west-wall bits inside the blocked
\* bits of that moment.
C5_BufferPruning ==
    LastOctant # 0 =>
      LET ref == OctantSweep(LastOctant, px, py, tilemap,
                             Unprunable(fov_maps[map_radius]), radius)
      IN  /\ sweep.visible_tiles = ref.visible_tiles
          /\ sweep.blocked_bits_1 = ref.blocked_bits_1
          /\ sweep.blocked_bits_2 = ref.blocked_bits_2
          /\ \A i \in DOMAIN sweep.log :
               sweep.log[i].pruned =>
                 LET ft == EntryAt(fov_maps[map_radius][LastOctant],
                                   sweep.log[i].dpri, sweep.log[i].dsec)
                 IN  /\ ft.tile_bits_1 \subseteq sweep.log[i].hid_1
                     /\ ft.tile_bits_2 \subseteq sweep.log[i].hid_2
                     /\ ft.north_wall_bits_1 \subseteq sweep.log[i].hid_1
                     /\ ft.north_wall_bits_2 \subseteq sweep.log[i].hid_2
                     /\ ft.west_wall_bits_1 \subseteq sweep.log[i].hid_1
                     /\ ft.west_wall_bits_2 \subseteq sweep.log[i].hid_2

\* a sweep that skipped an entry by the buffer test and reported others
C5_Witness ==
    /\ LastOctant # 0
    /\ \E i \in DOMAIN sweep.log : sweep.log[i].pruned
    /\ Len(sweep.visible_tiles) >= 2

\* ---- C6
\* the map reflected about the main diagonal: structures transposed, the
\* north and west walls of a cell exchanged
Transposed(tm) ==
    [ xdims |-> tm.ydims, ydims |-> tm.xdims,
      tiles |-> [tid \in 0 .. tm.xdims * tm.ydims - 1 |->
                   LET x == tid % tm.ydims
                       y == tid \div tm.ydims
                       t == tm.tiles[to_tile_id(y, x, tm.xdims)]
                   IN  Tile(tid, x, y, Blockers(t.structure, t.wall_w, t.wall_n))] ]

\* a record with its N and W bits exchanged
SwapNW(parts) ==
    (parts \cap {1, 8}) \cup (IF 2 \in parts THEN {4} ELSE {})
                        \cup (IF 4 \in parts THEN {2} ELSE {})

\* C6 as claimed: the query on the transposed map from the transposed origin
\* reports for each cell (y, x) the record of cell (x, y) with N and W
\* exchanged.
C6_TransposeSymmetry ==
    pc = "done" =>
      LET tm2 == Transposed(tilemap)
          res == fov_calc(py, px, tm2, fov_maps[map_radius], radius)
      IN  \A c \in MapCells :
            PartsIn(res, to_tile_id(c[2], c[1], tm2.xdims))
              = SwapNW(PartsIn(visible_tiles, TileId(c[1], c[2])))

\* ---- C7
StructuresOnly ==
    \A tid \in DOMAIN tilemap.tiles :
      ~tilemap.tiles[tid].wall_n /\ ~tilemap.tiles[tid].wall_w

\* the map with its structures mirrored left-right / top-bottom
MirroredX(tm) ==
    [tm EXCEPT !.tiles = [tid \in DOMAIN tm.tiles |->
        Tile(tid, tid % tm.xdims, tid \div tm.xdims,
             tm.tiles[to_tile_id(tm.xdims - 1 - (tid % tm.xdims), tid \div tm.xdims,
                                 tm.xdims)])]]

MirroredY(tm) ==
    [tm EXCEPT !.tiles = [tid \in DOMAIN tm.tiles |->
        Tile(tid, tid % tm.xdims, tid \div tm.xdims,
             tm.tiles[to_tile_id(tid % tm.xdims, tm.ydims - 1 - (tid \div tm.xdims),
                                 tm.xdims)])]]

\* the tile-visible cells of a result dict on a map xdims wide
TileVisible(dict, xdims) ==
    {<<tid % xdims, tid \div xdims>> : tid \in {t \in DOMAIN dict : 1 \in dict[t]}}

\* C7: on a map with structures only, the tile-visible set of the query on
\* the mirrored (x -> -x, y -> -y) or transposed (x <-> y) map from the
\* mirrored or transposed origin is the mirror or transpose of the
\* tile-visible set of the query on the map itself.
C7_StructureReflections ==
    (pc = "done" /\ StructuresOnly) =>
      LET seen == TileVisible(visible_tiles, tilemap.xdims)
          xd == tilemap.xdims
          yd == tilemap.ydims
          fm == fov_maps[map_radius]
      IN  /\ TileVisible(fov_calc(xd - 1 - px, py, MirroredX(tilemap), fm, radius), xd)
               = {<<xd - 1 - c[1], c[2]>> : c \in seen}
          /\ TileVisible(fov_calc(px, yd - 1 - py, MirroredY(tilemap), fm, radius), xd)
               = {<<c[1], yd - 1 - c[2]>> : c \in seen}
          /\ TileVisible(fov_calc(py, px, Transposed(tilemap), fm, radius), yd)
               = {<<c[2], c[1]>> : c \in seen}

\* a structure hides cells behind it on a map that is not square, seen from
\* a cell off the map's axes of symmetry
C7_Witness ==
    /\ pc = "done" /\ StructuresOnly /\ radius = 3
    /\ tilemap.xdims # tilemap.ydims
    /\ px = 0 /\ py = 1
    /\ \E tid \in DOMAIN tilemap.tiles : tilemap.tiles[tid].structure
    /\ \E c \in MapCells :
         /\ Max(Abs(c[1] - px), Abs(c[2] - py)) = 2
         /\ ~SeenT(c[1], c[2])

\* ---- C8
\* the tile bits of the entry at (dpri, dsec), the same in every octant
TileBitsAt(dpri, dsec) ==
    quantized_slopes_256(tile_slopes(dpri, dsec)[1], tile_slopes(dpri, dsec)[2])

\* entry j of the log comes after entry i at the same dsec, farther out, with
\* its tile bits inside the blocked bits that hid the tile of entry i
BehindHidden(log, i, j) ==
    /\ i < j
    /\ log[i].dsec = log[j].dsec
    /\ log[j].dpri > log[i].dpri
    /\ 1 \notin log[i].parts
    /\ TileBitsAt(log[j].dpri, log[j].dsec)[1] \subseteq log[i].hid_1
    /\ TileBitsAt(log[j].dpri, log[j].dsec)[2] \subseteq log[i].hid_2

\* C8: within one sweep, an entry that comes after a not tile-visible entry
\* at the same dsec, farther out, and whose tile bits lie inside the blocked
\* bits that hid that entry, is not tile-visible either.
C8_MonotonicOcclusion ==
    LastOctant # 0 =>
      \A i, j \in DOMAIN sweep.log :
        BehindHidden(sweep.log, i, j) => 1 \notin sweep.log[j].parts

\* such a pair, the later entry tested (not skipped by the buffer)
C8_Witness ==
    /\ LastOctant # 0
    /\ \E i, j \in DOMAIN sweep.log :
         /\ BehindHidden(sweep.log, i, j)
         /\ ~sweep.log[j].pruned
         /\ 1 \notin sweep.log[j].parts

\* ---- C9
\* any-order run: the octants whose lists were merged into the dict
MergedOctants == Octants \ (pending \cup DOMAIN partial)

\* the list the sweep of an octant returns for the running query
ListOf(octant) ==
    OctantSweep(octant, px, py, tilemap, fov_maps[map_radius], radius).visible_tiles

\* the lists of the octants of S, each at its octant's index
ListIn(S, octant) == IF octant \in S THEN ListOf(octant) ELSE <<>>

ListsOf(S) ==
    << ListIn(S, 1), ListIn(S, 2), ListIn(S, 3), ListIn(S, 4),
       ListIn(S, 5), ListIn(S, 6), ListIn(S, 7), ListIn(S, 8) >>

\* the OR of the origin's seed and of every record the lists of the octants
\* of S hold for the cell tid
OrOfRecords(lists, S, tid) ==
    (IF tid = Origin.tid THEN origin_visible(Origin) ELSE {})
      \cup UNION { UNION { lists[o][i][2] :
                           i \in {k \in DOMAIN lists[o] : lists[o][k][1] = tid} } :
                   o \in S }

\* C9: with the octants of a query swept and their lists merged in any order
\* and interleaving, the record of every cell in the dict is at every moment
\* the OR of the origin's seed and of the records of the octants merged so
\* far, and when all are merged the dict is the one the order O1 .. O8 gives.
C9_AnyOrder ==
    /\ pc \in {"par", "done"} =>
         LET lists == ListsOf(MergedOctants)
         IN  \A tid \in DOMAIN tilemap.tiles :
               PartsIn(visible_tiles, tid) = OrOfRecords(lists, MergedOctants, tid)
    /\ pc = "done" =>
         visible_tiles = fov_calc(px, py, tilemap, fov_maps[map_radius], radius)

\* an any-order run has ended in which two octants produced different
\* records for one cell
C9_Witness ==
    /\ pc = "done" /\ pending = {} /\ partial = <<>> /\ radius = MaxRadius
    /\ LET lists == ListsOf(Octants)
       IN  \E o1, o2 \in Octants :
             \E i \in DOMAIN lists[o1], j \in DOMAIN lists[o2] :
               /\ lists[o1][i][1] = lists[o2][j][1]
               /\ lists[o1][i][2] # lists[o2][j][2]

\* ---- C10
\* C10: no step changes the map, and every query that returns, whatever
\* queries came before it, returns the dict fov_calc gives for its map,
\* origin, radius and table when run first.
C10_RepeatQueries ==
    [][ /\ tilemap' = tilemap
        /\ pc' = "done" =>
             visible_tiles' = fov_calc(px', py', tilemap', fov_maps[map_radius'],
                                       radius') ]_vars

\* a second query has returned, with a radius below the first one's reach:
\* the dict holds fewer cells than the map has within the largest radius
C10_Witness ==
    /\ pc = "done" /\ calls = MaxCalls
    /\ radius = 1
    /\ \E tid \in DOMAIN tilemap.tiles : tilemap.tiles[tid].structure
    /\ Cardinality(DOMAIN visible_tiles) > 1

\* ---- C11
\* the entries of one octant table, field by field, and its column index
EntriesOf(fov_octant) ==
    <<[i \in 1 .. Len(fov_octant.tiles) |->
         LET t == fov_octant.tiles[i]
         IN  <<t.rx, t.ry, t.dpri, t.dsec, t.north_wall_bits_1, t.north_wall_bits_2,
               t.west_wall_bits_1, t.west_wall_bits_2, t.tile_bits_1, t.tile_bits_2,
               t.buffer_ix, t.buffer_bits>>],
      fov_octant.max_fov_ix>>

\* C11: a table set that was built, written to the file and loaded back has,
\* for every radius and every octant, the same entries in the same order and
\* the same max_fov_ix, and a finished query against the loaded set shows the
\* map that the built set gives
C11_RoundTrip ==
    (tables = "file" /\ ~file.damaged) =>
        LET loaded == HeldMaps
            built == FovMaps_new(file.built_for)
        IN  /\ DOMAIN loaded = DOMAIN built
            /\ \A r \in DOMAIN built : \A o \in Octants :
                   EntriesOf(loaded[r][o]) = EntriesOf(built[r][o])
            /\ pc = "done" =>
                   visible_tiles = fov_calc(px, py, tilemap, built[map_radius], radius)

C11_Witness ==
    /\ tables = "file"
    /\ ~file.damaged
    /\ file.built_for = MaxRadius + 1
    /\ pc = "done"
    /\ radius = MaxRadius
    /\ Cardinality(DOMAIN visible_tiles) > 1

\* ---- C12
InBounds(tm, x, y) == x \in 0 .. tm.xdims - 1 /\ y \in 0 .. tm.ydims - 1

\* C12: a query whose origin lies outside the grid fails with an error: it
\* never returns a visibility map
C12_OutOfBoundsFails ==
    ~InBounds(tilemap, px, py) => pc # "done"

\* ---- C13
\* C13: constructing Settings fails exactly when a map dimension is below 1;
\* every other value is taken: a radius of 0 or 1 is kept, max_radius is cut
\* to 127 and radius to max_radius, the resolution is stored unexamined; and
\* the table set the program builds has a table for every radius from 0 on
C13_Construction ==
    /\ (pc = "error" /\ settings = UnsetSettings) => (args.xdims < 1 \/ args.ydims < 1)
    /\ settings # UnsetSettings =>
          /\ args.xdims >= 1 /\ args.ydims >= 1
          /\ settings.xdims = args.xdims /\ settings.ydims = args.ydims
          /\ settings.max_radius = Min(args.max_radius, 127)
          /\ settings.radius = Min(args.radius, Min(args.max_radius, 127))
          /\ settings.qbits = args.qbits
    /\ tables = "new" =>
          /\ DOMAIN HeldMaps = 0 .. settings.max_radius - 1
          /\ \A o \in Octants : HeldMaps[0][o] = [tiles |-> <<>>, max_fov_ix |-> <<0>>]

C13_Witness ==
    /\ pc = "made"
    /\ args.radius < 2
    /\ args.max_radius > 127
    /\ settings.max_radius = 127
    /\ args.qbits \notin QBits

\* C13 as stated: a radius below 2, a map dimension below 1 or a resolution
\* that is no member of QBits is never accepted by the construction
C13_Rejected ==
    (args.radius < 2 \/ args.xdims < 1 \/ args.ydims < 1 \/ args.qbits \notin QBits)
        => settings = UnsetSettings

\* ---- C14
\* the tables a query runs against: built by this run, or loaded from a file
\* that holds the undamaged set for the configured max_radius
TablesChecked ==
    tables = "file" => (file.built_for = settings.max_radius /\ ~file.damaged)

\* C14: a file that is no table set, is damaged or was built for another
\* radius is rejected and the set is rebuilt: the program does not end in an
\* error on it, no query runs against tables taken from it, and every map
\* shown is the one the built tables give
C14_BadFileRejected ==
    /\ (file.kind = "garbage" \/ ~TablesChecked) => pc # "error"
    /\ pc \in {"o1", "o2", "o3", "o4", "o5", "o6", "o7", "o8", "done"} => TablesChecked
    /\ pc = "done" =>
          visible_tiles = fov_calc(px, py, tilemap, FovMap_new(map_radius), radius)

\* ---- C15
\* the per-octant order of the element tests as the specification lists it
ListedOrder ==
    << <<"W", "N", "T">>, <<"N", "W", "T">>, <<"N", "T", "W">>, <<"N", "T", "W">>,
       <<"T", "W", "N">>, <<"T", "N", "W">>, <<"W", "T", "N">>, <<"W", "T", "N">> >>

\* C15: every entry that is not skipped has its elements tested in the listed
\* order of its octant, and a wall found visible has entered the blocked bits
\* that the next element's test sees
C15_CheckOrder ==
    LastOctant # 0 =>
        \A i \in 1 .. Len(sweep.log) :
            LET en == sweep.log[i]
            IN  ~en.pruned =>
                  /\ en.order = ListedOrder[LastOctant]
                  /\ \A k \in 1 .. 2 :
                        (\/ en.order[k] = "W" /\ 4 \in en.parts
                         \/ en.order[k] = "N" /\ 2 \in en.parts)
                        => /\ en.seen[k][1] \subseteq en.seen[k + 1][1]
                           /\ en.seen[k][2] \subseteq en.seen[k + 1][2]
                           /\ en.seen[k] # en.seen[k + 1]

\* ---- C16
\* the 256-bit value of a returned pair of words
Bits256(fields) == fields[1] \cup {b + 128 : b \in fields[2]}

\* C16: for slopes 0 <= lo, hi <= 1 the value returned by quantization has
\* exactly the bits b of 0..255 with lo * 255 <= b <= hi * 255 (the indices
\* from ceil(lo * 255) to floor(hi * 255)), the first word holding bits
\* 0..127 and the second bits 128..255 shifted down by 128; when no index
\* lies in the range the value is empty
C16_Quantized ==
    (pc = "returned" /\ args.fn = "quantized_slopes_256") =>
        LET lo == args.slope_lo
            hi == args.slope_hi
        IN  /\ ret[1] \subseteq 0 .. 127
            /\ ret[2] \subseteq 0 .. 127
            /\ \A b \in 0 .. 255 :
                  b \in Bits256(ret) <=>
                     (lo[1] * 255 <= b * lo[2] /\ b * hi[2] <= hi[1] * 255)

C16_Witness ==
    /\ pc = "returned"
    /\ args.fn = "quantized_slopes_256"
    /\ args.slope_lo = <<1, 4>>
    /\ args.slope_hi = <<3, 4>>
    /\ ret[1] = 64 .. 127
    /\ ret[2] = 0 .. 63

\* C16 as stated, with BITS = 256: the bits b with lo * 256 <= b <= hi * 256
C16_Quantized_256 ==
    (pc = "returned" /\ args.fn = "quantized_slopes_256") =>
        LET lo == args.slope_lo
            hi == args.slope_hi
        IN  \A b \in 0 .. 255 :
              b \in Bits256(ret) <=>
                 (lo[1] * 256 <= b * lo[2] /\ b * hi[2] <= hi[1] * 256)

\* ---- C17
\* the cells of the octant triangle that lie inside the circle of radius R
ShapeCells(R) ==
    {c \in (1 .. R) \X (0 .. R) :
        /\ c[2] <= c[1]
        /\ (2 * c[1] - 1) * (2 * c[1] - 1) + (2 * c[2] - 1) * (2 * c[2] - 1) < 4 * R * R}

\* C17: the table FovOctant.new(R, octant) returns holds exactly the cells
\* (dpri, dsec) with 1 <= dpri <= R, 0 <= dsec <= dpri and
\* (dpri - 0.5)^2 + (dsec - 0.5)^2 < R^2, each once, in ascending dpri and
\* then ascending dsec, with (rx, ry) the octant's rotation of (dpri, dsec)
C17_TableCells ==
    (pc = "returned" /\ args.fn = "FovOctant.new") =>
        LET t == ret.tiles
        IN  /\ {<<t[i].dpri, t[i].dsec>> : i \in 1 .. Len(t)} = ShapeCells(args.radius)
            /\ \A i \in 1 .. Len(t) : \A j \in i + 1 .. Len(t) :
                  \/ t[i].dpri < t[j].dpri
                  \/ t[i].dpri = t[j].dpri /\ t[i].dsec < t[j].dsec
            /\ \A i \in 1 .. Len(t) :
                  /\ <<t[i].rx, t[i].ry>>
                        = pri_sec_to_relative(t[i].dpri, t[i].dsec, args.octant)
                  /\ Max(Abs(t[i].rx), Abs(t[i].ry)) = t[i].dpri
                  /\ Min(Abs(t[i].rx), Abs(t[i].ry)) = t[i].dsec

\* a table whose circle cuts cells off the triangle
C17_Witness ==
    /\ pc = "returned"
    /\ args.fn = "FovOctant.new"
    /\ args.radius = MaxRadius
    /\ args.octant = 3
    /\ Len(ret.tiles) > 0
    /\ Len(ret.tiles) < Cardinality({c \in (1 .. MaxRadius) \X (0 .. MaxRadius) : c[2] <= c[1]})

\* ---- C18
\* the distance from the origin to the map edge along the octant's primary axis
EdgeDistance(octant) ==
    CASE octant \in {1, 8} -> tilemap.xdims - 1 - px
      [] octant \in {2, 3} -> tilemap.ydims - 1 - py
      [] octant \in {4, 5} -> px
      [] octant \in {6, 7} -> py

\* the octants that return before their loop
ExitsEarly(octant) ==
    \/ octant \in {4, 5} /\ Origin.wall_w
    \/ octant \in {6, 7} /\ Origin.wall_n

\* max_fov_ix (ix) of a table of radius R with the entries t: R + 1 elements,
\* from 0, not decreasing, ix[d] the number of entries with dpri <= d and
\* these the first ix[d] entries
ColumnIndexOf(t, ix, R) ==
    /\ Len(ix) = R + 1
    /\ ix[1] = 0
    /\ \A d \in 0 .. R :
          /\ d > 0 => ix[d] <= ix[d + 1]
          /\ ix[d + 1] = Cardinality({i \in 1 .. Len(t) : t[i].dpri <= d})
          /\ \A i \in 1 .. Len(t) : i <= ix[d + 1] <=> t[i].dpri <= d

\* the entries a sweep went through, against the table's entries t
ScannedOf(t, log, early, max_dpri, max_dsec) ==
    LET logged == {<<log[i].dpri, log[i].dsec>> : i \in 1 .. Len(log)}
    IN  /\ \A c \in logged : c[1] <= max_dpri
        /\ ~early =>
              logged = {<<t[i].dpri, t[i].dsec>> : i \in
                          {j \in 1 .. Len(t) : t[j].dpri <= max_dpri
                                               /\ t[j].dsec <= max_dsec}}

\* C18: in every octant table of the map a query starts on (radius R),
\* max_fov_ix has
\* R + 1 elements, starts at 0, does not decrease, and max_fov_ix[d] is the
\* number of entries with dpri <= d, these being the first max_fov_ix[d]
\* entries; and a sweep with radius r <= R goes through no entry with dpri
\* above min(r, distance to the map edge) and, unless it returns before its
\* loop, through every entry up to that dpri that the secondary bound admits
C18_ColumnIndex ==
    /\ pc = "o1" =>
          \A o \in Octants :
              ColumnIndexOf(HeldMaps[map_radius][o].tiles,
                            HeldMaps[map_radius][o].max_fov_ix, map_radius)
    /\ LastOctant # 0 =>
          ScannedOf(HeldMaps[map_radius][LastOctant].tiles, sweep.log,
                    ExitsEarly(LastOctant),
                    Min(radius, EdgeDistance(LastOctant)),
                    boundary_radii(px, py, tilemap.xdims, tilemap.ydims,
                                   LastOctant, radius)[2])

\* a sweep cut short by the query's radius on a larger table
C18_Witness ==
    /\ LastOctant = 2
    /\ map_radius = MaxRadius
    /\ radius = 1
    /\ EdgeDistance(2) = 2
    /\ Len(sweep.log) = 2

\* ---- C19
\* C19: is_visible(b1, b2, k1, k2) is true iff some bit of b1 is not in k1 or
\* some bit of b2 is not in k2; an empty bitset and a bitset inside the
\* blocked bits are not visible
C19_IsVisible ==
    (pc = "returned" /\ args.fn = "is_visible") =>
        /\ ret \in BOOLEAN
        /\ ret <=> (\/ \E b \in args.visible_1 : b \notin args.blocked_1
                    \/ \E b \in args.visible_2 : b \notin args.blocked_2)
        /\ (args.visible_1 = {} /\ args.visible_2 = {}) => ~ret
        /\ (args.visible_1 \subseteq args.blocked_1
               /\ args.visible_2 \subseteq args.blocked_2) => ~ret

\* visible by a bit of the second word alone
C19_Witness ==
    /\ pc = "returned"
    /\ args.fn = "is_visible"
    /\ args.visible_1 = {0}
    /\ args.blocked_1 = {0, 127}
    /\ args.visible_2 = {0, 127}
    /\ args.blocked_2 = {0}
    /\ ret = TRUE

\* ---- C20
\* C20: on a width x height grid, (x, y) -> x + y * width maps the in-bounds
\* cells one-to-one onto 0 .. width * height - 1, to_coords takes the id
\* back to (x, y), and tile_at(x, y) returns the tile with that id and with
\* the stored coordinates (x, y)
C20_TileIds ==
    (pc = "returned" /\ args.fn = "tile_at") =>
        LET cells == Cells(args.xdims, args.ydims)
        IN  /\ ret.tid = args.x + args.y * args.xdims
            /\ ret.tid \in 0 .. args.xdims * args.ydims - 1
            /\ \A c \in cells :
                  to_tile_id(c[1], c[2], args.xdims) = ret.tid => c = <<args.x, args.y>>
            /\ {to_tile_id(c[1], c[2], args.xdims) : c \in cells}
                  = 0 .. args.xdims * args.ydims - 1
            /\ ret.coords = <<args.x, args.y>>
            /\ ret.tile.tid = ret.tid
            /\ ret.tile.x = args.x
            /\ ret.tile.y = args.y

\* a cell off the diagonal of a map that is not square
C20_Witness ==
    /\ pc = "returned"
    /\ args.fn = "tile_at"
    /\ args.xdims = 3
    /\ args.ydims = 2
    /\ args.x = 2
    /\ args.y = 1
    /\ ret.tid = 5
    /\ ret.tile.tid = 5

\* ---- C21
\* C21: octant_transform takes the octant-a image of canonical coordinates
\* (pri, sec), 0 <= sec <= pri, to their octant-b image, for all octants a, b
C21_OctantTransform ==
    (pc = "returned" /\ args.fn = "octant_transform") =>
        /\ ret = pri_sec_to_relative(args.pri, args.sec, args.b)
        /\ Max(Abs(ret[1]), Abs(ret[2])) = args.pri
        /\ Min(Abs(ret[1]), Abs(ret[2])) = args.sec

\* the image of (3, 1) in octant 3 taken to octant 6
C21_Witness ==
    /\ pc = "returned"
    /\ args.fn = "octant_transform"
    /\ args.pri = 3 /\ args.sec = 1
    /\ args.a = 3 /\ args.b = 6
    /\ ret = <<-1, -3>>

\* ---- C22
\* the set of cells of a list
CellsOf(line) == {line[i] : i \in 1 .. Len(line)}

\* C22: the cells bresenham visits from A to B are the cells it visits from
\* B to A
C22_BresenhamReciprocal ==
    (pc = "returned" /\ args.fn = "bresenham") =>
        CellsOf(ret) = CellsOf(bresenham(args.x2, args.y2, args.x1, args.y1))

\* ---- C23
\* C23: the cells fire_line visits from A to B are the cells it visits from
\* B to A, and the line starts at A and ends at B
C23_FireLineReciprocal ==
    (pc = "returned" /\ args.fn = "fire_line") =>
        /\ ret[1] = <<args.x1, args.y1>>
        /\ ret[Len(ret)] = <<args.x2, args.y2>>
        /\ CellsOf(ret) = CellsOf(fire_line(args.x2, args.y2, args.x1, args.y1))

\* ---- C24
\* C24: from an in-bounds origin with a radius r up to the table's, no index
\* is out of range (no sweep raises, max_fov_ix is indexed inside 0..R and
\* the slice ends inside the tile list), every cell a sweep reads lies on
\* the map at the coordinates asked for and within Chebyshev distance r of
\* the origin, and so does every key of the result
C24_InBounds ==
    InBounds(tilemap, px, py) =>
        /\ pc # "error"
        /\ ~sweep.error
        /\ \A o \in Octants :
              LET max_dpri == boundary_radii(px, py, tilemap.xdims, tilemap.ydims,
                                             o, radius)[1]
              IN  max_dpri \in 0 .. map_radius
        /\ LastOctant # 0 =>
              \A i \in 1 .. Len(sweep.log) :
                  LET rel == pri_sec_to_relative(sweep.log[i].dpri, sweep.log[i].dsec,
                                                 LastOctant)
                  IN  /\ InBounds(tilemap, px + rel[1], py + rel[2])
                      /\ Abs(rel[1]) <= radius
                      /\ Abs(rel[2]) <= radius
        /\ \A tid \in DOMAIN visible_tiles :
              LET c == to_coords(tid, tilemap.xdims)
              IN  /\ tid \in 0 .. tilemap.xdims * tilemap.ydims - 1
                  /\ Abs(c[1] - px) <= radius
                  /\ Abs(c[2] - py) <= radius

\* a finished query from a corner, the radius reaching beyond two edges
C24_Witness ==
    /\ pc = "done"
    /\ px = 0
    /\ py = tilemap.ydims - 1
    /\ radius = 2
    /\ map_radius = MaxRadius
    /\ EdgeDistance(4) = 0
    /\ EdgeDistance(1) = 2
    /\ Cardinality(DOMAIN visible_tiles) > 4

\* ---- C25
\* C25: once run_game has its table set, at start-up and after every key
\* event the radius is an index into the list of maps, the active map is the
\* one built for the radius, the player is on the map and no access has
\* raised
C25_RadiusValid ==
    tables # "none" =>
        /\ pc # "error"
        /\ radius \in 0 .. run_max_radius - 1
        /\ map_radius = radius
        /\ InBounds(tilemap, px, py)

\* ---- C26
\* the records of a result map, as (tile id, parts) pairs
RecordsOf(dict) == {<<tid, dict[tid]>> : tid \in DOMAIN dict}

\* the records of the list an octant's sweep returned
ListedRecords(list) == {list[i] : i \in DOMAIN list}

\* one record against the cell it is about: W only with a west wall, N only
\* with a north wall, C exactly with W or N, and never zero
RecordSound(tm, rec) ==
    LET tile == tm.tiles[rec[1]]
        parts == rec[2]
    IN  /\ 4 \in parts => tile.wall_w
        /\ 2 \in parts => tile.wall_n
        /\ 8 \in parts <=> (4 \in parts \/ 2 \in parts)
        /\ parts # {}
        /\ parts \subseteq {1, 2, 4, 8}

\* C26: in every record of the result map, and of every list a sweep
\* returns, the W bit is set only if the cell has a west wall, the N bit only
\* if it has a north wall, the C bit exactly when W or N is set, and no
\* record is zero
C26_Records ==
    /\ \A rec \in RecordsOf(visible_tiles) : RecordSound(tilemap, rec)
    /\ \A rec \in ListedRecords(sweep.visible_tiles) : RecordSound(tilemap, rec)

\* a finished map holding a record with W and C, one with N and C and one
\* with T alone
C26_Witness ==
    /\ pc = "done"
    /\ \E rec \in RecordsOf(visible_tiles) : {4, 8} \subseteq rec[2] /\ rec[1] # Origin.tid
    /\ \E rec \in RecordsOf(visible_tiles) : {2, 8} \subseteq rec[2]
    /\ \E rec \in RecordsOf(visible_tiles) : rec[2] = {1}

\* ---- C27
\* the cell (x, y) lies in the circular shape of the table of radius r
\* around the observer
InTableShape(x, y, r) ==
    LET dx == Abs(x - px)
        dy == Abs(y - py)
    IN  InShape(Max(dx, dy), Min(dx, dy), r)

\* C27: on a map whose only blocker is one north or west wall on a cell of
\* the table's shape, seen from an observer without walls, the finished map
\* reports that wall: its wall bit and the C bit are in the cell's record
C27_LoneWallSeen ==
    pc = "done" =>
        \A c \in MapCells :
            LET tile == tile_at(tilemap, c[1], c[2])
                parts == PartsIn(visible_tiles, tile.tid)
            IN  InTableShape(c[1], c[2], radius) =>
                    /\ tile.wall_n => {2, 8} \subseteq parts
                    /\ tile.wall_w => {4, 8} \subseteq parts

\* ---- C28
\* the offset (dx, dy) lies in the wedge of the octant: the primary axis
\* and its direction, the secondary offset between 0 and the primary one
InWedge(octant, dx, dy) ==
    CASE octant = 1 -> dx > 0 /\ 0 <= dy /\ dy <= dx
      [] octant = 2 -> dy > 0 /\ 0 <= dx /\ dx <= dy
      [] octant = 3 -> dy > 0 /\ 0 <= -dx /\ -dx <= dy
      [] octant = 4 -> dx < 0 /\ 0 <= dy /\ dy <= -dx
      [] octant = 5 -> dx < 0 /\ 0 <= -dy /\ -dy <= -dx
      [] octant = 6 -> dy < 0 /\ 0 <= -dx /\ -dx <= -dy
      [] octant = 7 -> dy < 0 /\ 0 <= dx /\ dx <= -dy
      [] octant = 8 -> dx > 0 /\ 0 <= -dy /\ -dy <= dx

\* the cells of the map inside the octant's wedge and within the radius
WedgeCells(octant) ==
    {c \in MapCells : /\ InWedge(octant, c[1] - px, c[2] - py)
                      /\ Abs(c[1] - px) <= radius /\ Abs(c[2] - py) <= radius}

\* the map with every blocker flag cleared outside the octant's wedge, the
\* origin's walls kept
OutsideCleared(octant) ==
    [tilemap EXCEPT !.tiles =
        [i \in DOMAIN tilemap.tiles |->
            LET t == tilemap.tiles[i]
            IN  IF <<t.x, t.y>> \in WedgeCells(octant) THEN t
                ELSE IF <<t.x, t.y>> = <<px, py>> THEN [t EXCEPT !.structure = FALSE]
                ELSE [t EXCEPT !.structure = FALSE, !.wall_n = FALSE,
                               !.wall_w = FALSE]]]

\* C28: the list an octant's sweep returns is the list that sweep returns
\* on the map that agrees with this one on the origin's walls and on the
\* cells of the octant's wedge and has no blocker anywhere else
C28_WedgeOnly ==
    LastOctant # 0 =>
        sweep.visible_tiles =
            OctantSweep(LastOctant, px, py, OutsideCleared(LastOctant),
                        fov_maps[map_radius], radius).visible_tiles

\* a sweep of radius 2 or more that returned records on a map with a
\* blocker outside its wedge
C28_Witness ==
    /\ LastOctant # 0
    /\ radius >= 2
    /\ OutsideCleared(LastOctant) # tilemap
    /\ Len(sweep.visible_tiles) >= 2

\* ---- C29
\* the blocked bits (both words) an entry of the log started with
BlockedBefore(log, i) ==
    IF log[i].pruned THEN <<log[i].hid_1, log[i].hid_2>> ELSE log[i].seen[1]

\* the blocked bits an entry of the log left: those the next entry started
\* with, or those the sweep ended with
BlockedAfter(log, i, final) ==
    IF i = Len(log) THEN final ELSE BlockedBefore(log, i + 1)

\* the bitsets an entry may OR into blocked: those of the walls it reported,
\* and the tile's if the cell has a structure and the entry reported a part
MayBlock(ft, tile, parts) ==
    (IF 4 \in parts THEN {<<ft.west_wall_bits_1, ft.west_wall_bits_2>>} ELSE {})
    \cup (IF 2 \in parts THEN {<<ft.north_wall_bits_1, ft.north_wall_bits_2>>} ELSE {})
    \cup (IF tile.structure /\ parts # {}
          THEN {<<ft.tile_bits_1, ft.tile_bits_2>>} ELSE {})

\* one entry's change of blocked, from `before` to `after`
EntryAccumulates(ft, tile, parts, before, after) ==
    /\ before[1] \subseteq after[1]
    /\ before[2] \subseteq after[2]
    /\ \E S \in SUBSET MayBlock(ft, tile, parts) :
          /\ after[1] = before[1] \cup UNION {s[1] : s \in S}
          /\ after[2] = before[2] \cup UNION {s[2] : s \in S}
    /\ (~tile.wall_n /\ ~tile.wall_w /\ ~tile.structure) => after = before

\* every entry of a sweep's log, against the octant's table
SweepAccumulates(fov_octant, log, final) ==
    \A i \in 1 .. Len(log) :
        LET ft == EntryAt(fov_octant, log[i].dpri, log[i].dsec)
        IN  EntryAccumulates(ft, tile_at(tilemap, px + ft.rx, py + ft.ry),
                             log[i].parts, BlockedBefore(log, i),
                             BlockedAfter(log, i, final))

\* C29: in every sweep no entry takes a bit out of blocked; an entry adds
\* to it only whole bitsets, each the bitset of a wall the entry reported or
\* the tile bitset of a structure on a cell the entry reported a part of;
\* and an entry on a cell without wall or structure leaves it as it was
C29_BlockedGrows ==
    LastOctant # 0 =>
        SweepAccumulates(HeldMaps[map_radius][LastOctant], sweep.log,
                         <<sweep.blocked_bits_1, sweep.blocked_bits_2>>)

\* a sweep in which one entry added a wall's bits to blocked, a later one
\* was on a bare floor, and blocked ended non-empty
C29_Witness ==
    /\ LastOctant # 0
    /\ Len(sweep.log) >= 3
    /\ \E i \in 1 .. Len(sweep.log) - 1 :
          /\ ~sweep.log[i].pruned
          /\ sweep.log[i].parts \cap {2, 4} # {}
          /\ BlockedBefore(sweep.log, i) # BlockedBefore(sweep.log, i + 1)
          /\ sweep.log[i + 1].parts = {1}
    /\ sweep.blocked_bits_1 \cup sweep.blocked_bits_2 # {}

\* ---- C30
\* the bitset (both words) a inside the bitset b
BitsWithin(a_1, a_2, b_1, b_2) == a_1 \subseteq b_1 /\ a_2 \subseteq b_2

\* one table entry: both wall bitsets inside the tile bitset, the tile
\* bitset non-empty, and no wall visible once the tile bitset is blocked
EntryWallsWithin(ft) ==
    /\ BitsWithin(ft.north_wall_bits_1, ft.north_wall_bits_2,
                  ft.tile_bits_1, ft.tile_bits_2)
    /\ BitsWithin(ft.west_wall_bits_1, ft.west_wall_bits_2,
                  ft.tile_bits_1, ft.tile_bits_2)
    /\ ft.tile_bits_1 \cup ft.tile_bits_2 # {}
    /\ \A extra \in Words :
          /\ ~is_visible(ft.north_wall_bits_1, ft.north_wall_bits_2,
                         ft.tile_bits_1 \cup extra, ft.tile_bits_2 \cup extra)
          /\ ~is_visible(ft.west_wall_bits_1, ft.west_wall_bits_2,
                         ft.tile_bits_1 \cup extra, ft.tile_bits_2 \cup extra)

\* C30: in every entry of every table FovOctant.new builds, the north-wall
\* bitset and the west-wall bitset are subsets of the tile bitset and the
\* tile bitset is non-empty, so that no wall of the entry is visible when
\* the blocked bits contain its tile bitset
C30_WallsWithinTile ==
    (pc = "returned" /\ args.fn = "FovOctant.new") =>
        \A i \in DOMAIN ret.tiles : EntryWallsWithin(ret.tiles[i])

\* a table of the long range returned, with an entry whose wall bitsets are
\* non-empty and smaller than its tile bitset and one whose wall bitset is
\* empty
C30_Witness ==
    /\ pc = "returned"
    /\ args.fn = "FovOctant.new"
    /\ args.radius = FarRadius
    /\ \E i \in DOMAIN ret.tiles :
          /\ ret.tiles[i].north_wall_bits_1 # {}
          /\ ret.tiles[i].west_wall_bits_1 # {}
          /\ ret.tiles[i].north_wall_bits_1 # ret.tiles[i].tile_bits_1
          /\ ret.tiles[i].west_wall_bits_1 # ret.tiles[i].tile_bits_1
    /\ \E i \in DOMAIN ret.tiles :
          ret.tiles[i].north_wall_bits_1 \cup ret.tiles[i].north_wall_bits_2 = {}

====
